---- MODULE Spec2Model ----
(***************************************************************************)
(* A model of the constant-time core of the library: the XMSS streaming   *)
(* message hash and XMSS parameter sets, the AES block cipher with its    *)
(* backend dispatch and the CPU-feature vector it consults, the BigInt    *)
(* kernel, the Ed448 signature scheme and Curve25519 key agreement.       *)
(*                                                                         *)
(* Each subsystem has its own variables and its own specification; a      *)
(* specification keeps the variables of the other subsystems at their     *)
(* idle values.                                                            *)
(***************************************************************************)
EXTENDS Integers, Sequences, FiniteSets, TLC

VARIABLES
  \* ---- XMSS_Hash (xmss_hash.cpp)
  m_msg_hash,    \* the bytes absorbed by m_msg_hash since its last reset
  xmss_state,    \* lifecycle of the streaming hash: Fresh, Initialized, Finalized
  xmss_prefix,   \* the bytes the last h_msg_init absorbed
  xmss_fed,      \* the bytes passed to h_msg_update since the last init/final
  xmss_op,       \* the last call: its name, the lifecycle state it was made in, its outcome
  xmss_digest,   \* the value the last h_msg_final / h_msg returned
  \* ---- AES (aes.cpp)
  cpuid,         \* the CPU-feature vector the dispatch consults, with the cache-line size
  m_EK,          \* encryption round keys, 32-bit words
  m_DK,          \* decryption round keys, 32-bit words
  m_ME,          \* last encryption round key, bytes
  m_MD,          \* last decryption round key, bytes
  aes_key,       \* the key of the last completed key schedule
  aes_key_backend, \* the branch of key_schedule that filled the buffers
  aes_tables,    \* the addresses of the tables TE, TD and SD of this build
  aes_swept,     \* the cache lines the sweep of the last call read, per table
  aes_op,        \* the last call: name, backend called, outcome, input, output
  \* ---- BigInt (bigint.cpp)
  m_reg,         \* the words of the magnitude, least significant first
  m_signedness,  \* Positive or Negative
  big_op,        \* the last call: name, its byte input, its byte output
  big_other,     \* the words of the BigInt the last call took by reference, as the call left them
  big_ws,        \* the word buffer the last call took by reference (out, output, ws), as the call left it
  big_call,      \* the last call with arguments: name, outcome, arguments, result, what it read, the values before it
  \* ---- Ed448 (ed448_internal.cpp)
  ed_pc,         \* position of the caller: start, keyed, signed, done
  ed_sk,         \* the private seed
  ed_pk,         \* the public key create_pk_from_sk made of it
  ed_signed,     \* what sign_message was called with, and the signature it returned
  ed_op,         \* the last call: name, outcome, variant verified, context, dom4 string, input, output
  \* ---- Curve25519 (curve25519.cpp)
  m_private,     \* the private key bytes
  m_public,      \* the public value
  ka_operation,  \* the key-agreement operation object the last create call returned, if any
  ka_op,         \* the last call: name, outcome, input, output, whether the ladder ran
  \* ---- XMSS_Parameters (xmss_parameters.cpp)
  xmss_params,   \* the parameter record the last construction made, if it made one
  xp_op,         \* the last construction: which constructor, its argument, its outcome
  \* ---- CPUID, whose current vector is cpuid
  cpuid_detected,     \* the vector the probe of this machine gives
  cpuid_initialized,  \* whether initialize() has run
  cpuid_cleared,      \* the bits cleared by clear_cpuid_bit since the last initialize()
  cpuid_op,           \* the last CPUID call: name, the bit it names, what it returned, the vector before it
  \* ---- FFI utilities (ffi_util.h)
  ffi_handle,    \* the botan_struct the caller's handle points to: its storage, m_magic, m_obj
  ffi_obj,       \* the wrapped object: none, alive or destroyed
  ffi_out,       \* the caller's memory at out, the bytes past its capacity included
  ffi_out_len,   \* the caller's *out_len
  ffi_op         \* the last FFI call: name, arguments, what it returned, whether it reached the object

xmssVars == <<m_msg_hash, xmss_state, xmss_prefix, xmss_fed, xmss_op, xmss_digest>>
aesVars == <<cpuid, m_EK, m_DK, m_ME, m_MD, aes_key, aes_key_backend, aes_tables, aes_swept, aes_op>>
bigVars == <<m_reg, m_signedness, big_op>>
bigArgVars == <<big_other, big_ws, big_call>>
edVars == <<ed_pc, ed_sk, ed_pk, ed_signed, ed_op>>
kaVars == <<m_private, m_public, ka_operation, ka_op>>
xpVars == <<xmss_params, xp_op>>
cpuidVars == <<cpuid_detected, cpuid_initialized, cpuid_cleared, cpuid_op>>
ffiVars == <<ffi_handle, ffi_obj, ffi_out, ffi_out_len, ffi_op>>
vars == <<xmssVars, aesVars, bigVars, bigArgVars, edVars, kaVars, xpVars, cpuidVars, ffiVars>>
\* the variables a subsystem leaves alone
nonXmssVars == <<aesVars, bigVars, bigArgVars, edVars, kaVars, xpVars, cpuidVars, ffiVars>>
nonAesVars == <<xmssVars, bigVars, bigArgVars, edVars, kaVars, xpVars, cpuidVars, ffiVars>>
nonBigVars == <<xmssVars, aesVars, bigArgVars, edVars, kaVars, xpVars, cpuidVars, ffiVars>>
\* the variables a BigInt call with arguments leaves alone
nonBigCallVars == <<xmssVars, aesVars, edVars, kaVars, xpVars, cpuidVars, ffiVars>>
nonEdVars == <<xmssVars, aesVars, bigVars, bigArgVars, kaVars, xpVars, cpuidVars, ffiVars>>
nonKaVars == <<xmssVars, aesVars, bigVars, bigArgVars, edVars, xpVars, cpuidVars, ffiVars>>
nonXpVars == <<xmssVars, aesVars, bigVars, bigArgVars, edVars, kaVars, cpuidVars, ffiVars>>
\* the variables a CPUID call leaves alone, besides the buffers of the AES object
nonCpuidVars == <<xmssVars, bigVars, bigArgVars, edVars, kaVars, xpVars, ffiVars>>
nonFfiVars == <<xmssVars, aesVars, bigVars, bigArgVars, edVars, kaVars, xpVars, cpuidVars>>

(***************************************************************************)
(* Bytes and small helpers                                                 *)
(***************************************************************************)
Byte == 0..255

Cat(s, t) == s \o t

\* a sequence given by a function on 1..n, evaluated once into a tuple
Tup(f) == f \o <<>>

Zeros(n) == Tup([i \in 1..n |-> 0])

IsPrefixOf(p, s) == Len(p) <= Len(s) /\ SubSeq(s, 1, Len(p)) = p

(***************************************************************************)
(* 32-bit words as four bytes, most significant first; bitwise operations  *)
(***************************************************************************)
Bit(n, i) == (n \div 2^i) % 2

Xor4Tab == [a \in 0..15 |-> [b \in 0..15 |->
   ((Bit(a,0) + Bit(b,0)) % 2) + 2 * ((Bit(a,1) + Bit(b,1)) % 2)
   + 4 * ((Bit(a,2) + Bit(b,2)) % 2) + 8 * ((Bit(a,3) + Bit(b,3)) % 2)]]

And4Tab == [a \in 0..15 |-> [b \in 0..15 |->
   (Bit(a,0) * Bit(b,0)) + 2 * (Bit(a,1) * Bit(b,1))
   + 4 * (Bit(a,2) * Bit(b,2)) + 8 * (Bit(a,3) * Bit(b,3))]]

\* ^, & and | on 4-bit values, and ~ cut to the four bits kept by "& 0xF"
NXor(a, b) == Xor4Tab[a][b]
NAnd(a, b) == And4Tab[a][b]
NNot(a) == 15 - a

\* ^, & and | on uint8_t
BXor(a, b) == 16 * Xor4Tab[a \div 16][b \div 16] + Xor4Tab[a % 16][b % 16]
BAnd(a, b) == 16 * And4Tab[a \div 16][b \div 16] + And4Tab[a % 16][b % 16]
BOr(a, b) == a + b - BAnd(a, b)

\* ^, & and | on uint32_t
WXor(x, y) == <<BXor(x[1], y[1]), BXor(x[2], y[2]), BXor(x[3], y[3]), BXor(x[4], y[4])>>
WAnd(x, y) == <<BAnd(x[1], y[1]), BAnd(x[2], y[2]), BAnd(x[3], y[3]), BAnd(x[4], y[4])>>
WOr(x, y) == <<BOr(x[1], y[1]), BOr(x[2], y[2]), BOr(x[3], y[3]), BOr(x[4], y[4])>>

ZeroWord == <<0, 0, 0, 0>>

make_uint32(i0, i1, i2, i3) == <<i0, i1, i2, i3>>
get_byte(n, w) == w[n + 1]
rotr8(w) == <<w[4], w[1], w[2], w[3]>>
rotr16(w) == <<w[3], w[4], w[1], w[2]>>
rotr24(w) == <<w[2], w[3], w[4], w[1]>>
rotl8(w) == <<w[2], w[3], w[4], w[1]>>
reverse_bytes(w) == <<w[4], w[3], w[2], w[1]>>

\* load_be<uint32_t>(in, i): the i-th big-endian word of a byte string (i from 0)
load_be(in, i) == <<in[4*i + 1], in[4*i + 2], in[4*i + 3], in[4*i + 4]>>

(***************************************************************************)
(* AES: the S-boxes, xtime, the T-tables (aes.cpp)                         *)
(***************************************************************************)
SE_TABLE ==
  <<
   99, 124, 119, 123, 242, 107, 111, 197, 48, 1, 103, 43, 254, 215, 171, 118,
   202, 130, 201, 125, 250, 89, 71, 240, 173, 212, 162, 175, 156, 164, 114, 192,
   183, 253, 147, 38, 54, 63, 247, 204, 52, 165, 229, 241, 113, 216, 49, 21,
   4, 199, 35, 195, 24, 150, 5, 154, 7, 18, 128, 226, 235, 39, 178, 117,
   9, 131, 44, 26, 27, 110, 90, 160, 82, 59, 214, 179, 41, 227, 47, 132,
   83, 209, 0, 237, 32, 252, 177, 91, 106, 203, 190, 57, 74, 76, 88, 207,
   208, 239, 170, 251, 67, 77, 51, 133, 69, 249, 2, 127, 80, 60, 159, 168,
   81, 163, 64, 143, 146, 157, 56, 245, 188, 182, 218, 33, 16, 255, 243, 210,
   205, 12, 19, 236, 95, 151, 68, 23, 196, 167, 126, 61, 100, 93, 25, 115,
   96, 129, 79, 220, 34, 42, 144, 136, 70, 238, 184, 20, 222, 94, 11, 219,
   224, 50, 58, 10, 73, 6, 36, 92, 194, 211, 172, 98, 145, 149, 228, 121,
   231, 200, 55, 109, 141, 213, 78, 169, 108, 86, 244, 234, 101, 122, 174, 8,
   186, 120, 37, 46, 28, 166, 180, 198, 232, 221, 116, 31, 75, 189, 139, 138,
   112, 62, 181, 102, 72, 3, 246, 14, 97, 53, 87, 185, 134, 193, 29, 158,
   225, 248, 152, 17, 105, 217, 142, 148, 155, 30, 135, 233, 206, 85, 40, 223,
   140, 161, 137, 13, 191, 230, 66, 104, 65, 153, 45, 15, 176, 84, 187, 22 >>

SD_TABLE ==
  <<
   82, 9, 106, 213, 48, 54, 165, 56, 191, 64, 163, 158, 129, 243, 215, 251,
   124, 227, 57, 130, 155, 47, 255, 135, 52, 142, 67, 68, 196, 222, 233, 203,
   84, 123, 148, 50, 166, 194, 35, 61, 238, 76, 149, 11, 66, 250, 195, 78,
   8, 46, 161, 102, 40, 217, 36, 178, 118, 91, 162, 73, 109, 139, 209, 37,
   114, 248, 246, 100, 134, 104, 152, 22, 212, 164, 92, 204, 93, 101, 182, 146,
   108, 112, 72, 80, 253, 237, 185, 218, 94, 21, 70, 87, 167, 141, 157, 132,
   144, 216, 171, 0, 140, 188, 211, 10, 247, 228, 88, 5, 184, 179, 69, 6,
   208, 44, 30, 143, 202, 63, 15, 2, 193, 175, 189, 3, 1, 19, 138, 107,
   58, 145, 17, 65, 79, 103, 220, 234, 151, 242, 207, 206, 240, 180, 230, 115,
   150, 172, 116, 34, 231, 173, 53, 133, 226, 249, 55, 232, 28, 117, 223, 110,
   71, 241, 26, 113, 29, 41, 197, 137, 111, 183, 98, 14, 170, 24, 190, 27,
   252, 86, 62, 75, 198, 210, 121, 32, 154, 219, 192, 254, 120, 205, 90, 244,
   31, 221, 168, 51, 136, 7, 199, 49, 177, 18, 16, 89, 39, 128, 236, 95,
   96, 81, 127, 169, 25, 181, 74, 13, 45, 229, 122, 159, 147, 201, 156, 239,
   160, 224, 59, 77, 174, 42, 245, 176, 200, 235, 187, 60, 131, 83, 153, 97,
   23, 43, 4, 126, 186, 119, 214, 38, 225, 105, 20, 99, 85, 33, 12, 125 >>

SE(i) == SE_TABLE[i + 1]
SD(i) == SD_TABLE[i + 1]

xtime(s) == BXor((s * 2) % 256, (s \div 128) * 27)
xtime3_as_xtime(s) == xtime(s)
xtime3(s) == BXor(xtime(s), s)

InvMixColumn(s1) ==
  LET s2 == xtime(s1)
      s4 == xtime(s2)
      s8 == xtime(s4)
      s9 == BXor(s8, s1)
      s11 == BXor(s9, s2)
      s13 == BXor(s9, s4)
      s14 == BXor(BXor(s8, s4), s2)
  IN make_uint32(s14, s9, s13, s11)

\* The bitsliced S-box circuit of Boyar and Peralta on eight 4-bit slices
\* (SE_word keeps only the low four bits of each slice).  The straight-line
\* code is cut into six layers; r holds V followed by the values computed so
\* far, in the order of their layers.
AES_SBOX_1(r) ==
  LET
      I0 == r[1]
      I3 == r[4]
      I5 == r[6]
      I6 == r[7]
      I4 == r[5]
      I1 == r[2]
      I2 == r[3]
      I7 == r[8]
      T1 == NXor(I0, I3)
      T2 == NXor(I0, I5)
      T3 == NXor(I0, I6)
      T4 == NXor(I3, I5)
      T5 == NXor(I4, I6)
      T6 == NXor(T1, T5)
      T7 == NXor(I1, I2)
      T8 == NXor(I7, T6)
      T9 == NXor(I7, T7)
      T10 == NXor(T6, T7)
      T11 == NXor(I1, I5)
      T12 == NXor(I2, I5)
      T13 == NXor(T3, T4)
      T14 == NXor(T6, T11)
      T15 == NXor(T5, T11)
      T16 == NXor(T5, T12)
      T17 == NXor(T9, T16)
      T18 == NXor(I3, I7)
      T19 == NXor(T7, T18)
      T20 == NXor(T1, T19)
      T21 == NXor(I6, I7)
      T22 == NXor(T7, T21)
      T23 == NXor(T2, T22)
      T26 == NXor(T3, T16)
      T27 == NXor(T1, T12)
      D == I7
      M1 == NAnd(T13, T6)
      M4 == NAnd(T19, D)
      M6 == NAnd(T3, T16)
      M7 == NAnd(T22, T9)
      M11 == NAnd(T1, T15)
      M12 == NAnd(T4, T27)
  IN r \o <<T1, T2, T3, T4, T5, T6, T7, T8, T9, T10, T11, T12, T13,
            T14, T15, T16, T17, T18, T19, T20, T21, T22, T23, T26,
            T27, D, M1, M4, M6, M7, M11, M12>>

AES_SBOX_2(r) ==
  LET
      T2 == r[10]
      T10 == r[18]
      T20 == r[28]
      T17 == r[25]
      T23 == r[31]
      T8 == r[16]
      T14 == r[22]
      M1 == r[35]
      M4 == r[36]
      T26 == r[32]
      M6 == r[37]
      M12 == r[40]
      M11 == r[39]
      M7 == r[38]
      T24 == NXor(T2, T10)
      T25 == NXor(T20, T17)
      M2 == NAnd(T23, T8)
      M3 == NXor(T14, M1)
      M5 == NXor(M4, M1)
      M8 == NXor(T26, M6)
      M9 == NAnd(T20, T17)
      M10 == NXor(M9, M6)
      M13 == NXor(M12, M11)
      M14 == NAnd(T2, T10)
      M15 == NXor(M14, M11)
      M16 == NXor(M3, M2)
      M17 == NXor(M5, T24)
      M18 == NXor(M8, M7)
      M19 == NXor(M10, M15)
      M20 == NXor(M16, M13)
      M21 == NXor(M17, M15)
      M22 == NXor(M18, M13)
  IN r \o <<T24, T25, M2, M3, M5, M8, M9, M10, M13, M14, M15, M16,
            M17, M18, M19, M20, M21, M22>>

AES_SBOX_3(r) ==
  LET
      M19 == r[55]
      T25 == r[42]
      M22 == r[58]
      M20 == r[56]
      M21 == r[57]
      M23 == NXor(M19, T25)
      M24 == NXor(M22, M23)
      M25 == NAnd(M22, M20)
      M26 == NXor(M21, M25)
      M27 == NXor(M20, M21)
      M28 == NXor(M23, M25)
      M29 == NAnd(M28, M27)
      M30 == NAnd(M26, M24)
      M31 == NAnd(M20, M23)
      M32 == NAnd(M27, M31)
      M33 == NXor(M27, M25)
      M34 == NAnd(M21, M22)
      M35 == NAnd(M24, M34)
      M36 == NXor(M24, M25)
  IN r \o <<M23, M24, M25, M26, M27, M28, M29, M30, M31, M32, M33,
            M34, M35, M36>>

AES_SBOX_4(r) ==
  LET
      M21 == r[57]
      M29 == r[65]
      M32 == r[68]
      M33 == r[69]
      M23 == r[59]
      M30 == r[66]
      M35 == r[71]
      M36 == r[72]
      T6 == r[14]
      T8 == r[16]
      D == r[34]
      T16 == r[24]
      T9 == r[17]
      T17 == r[25]
      T15 == r[23]
      T10 == r[18]
      T13 == r[21]
      T23 == r[31]
      T19 == r[27]
      T3 == r[11]
      T22 == r[30]
      T20 == r[28]
      T1 == r[9]
      T2 == r[10]
      M37 == NXor(M21, M29)
      M38 == NXor(M32, M33)
      M39 == NXor(M23, M30)
      M40 == NXor(M35, M36)
      M41 == NXor(M38, M40)
      M42 == NXor(M37, M39)
      M43 == NXor(M37, M38)
      M44 == NXor(M39, M40)
      M45 == NXor(M42, M41)
      M46 == NAnd(M44, T6)
      M47 == NAnd(M40, T8)
      M48 == NAnd(M39, D)
      M49 == NAnd(M43, T16)
      M50 == NAnd(M38, T9)
      M51 == NAnd(M37, T17)
      M52 == NAnd(M42, T15)
      M54 == NAnd(M41, T10)
      M55 == NAnd(M44, T13)
      M56 == NAnd(M40, T23)
      M57 == NAnd(M39, T19)
      M58 == NAnd(M43, T3)
      M59 == NAnd(M38, T22)
      M60 == NAnd(M37, T20)
      M61 == NAnd(M42, T1)
      M63 == NAnd(M41, T2)
      L1 == NXor(M50, M56)
      L8 == NXor(M51, M59)
      L12 == NXor(M48, M51)
  IN r \o <<M37, M38, M39, M40, M41, M42, M43, M44, M45, M46, M47,
            M48, M49, M50, M51, M52, M54, M55, M56, M57, M58, M59,
            M60, M61, M63, L1, L8, L12>>

AES_SBOX_5(r) ==
  LET
      M45 == r[81]
      T27 == r[33]
      T4 == r[12]
      M61 == r[96]
      M46 == r[82]
      M48 == r[84]
      M47 == r[83]
      M55 == r[90]
      M54 == r[89]
      M58 == r[93]
      M49 == r[85]
      M52 == r[88]
      M60 == r[95]
      M50 == r[86]
      L1 == r[98]
      M56 == r[91]
      M57 == r[92]
      L8 == r[99]
      M63 == r[97]
      L12 == r[100]
      M53 == NAnd(M45, T27)
      M62 == NAnd(M45, T4)
      L0 == NXor(M61, M62)
      L2 == NXor(M46, M48)
      L3 == NXor(M47, M55)
      L4 == NXor(M54, M58)
      L5 == NXor(M49, M61)
      L6 == NXor(M62, L5)
      L7 == NXor(M46, L3)
      L9 == NXor(M52, M53)
      L10 == NXor(M53, L4)
      L11 == NXor(M60, L2)
      L13 == NXor(M50, L0)
      L14 == NXor(M52, M61)
      L15 == NXor(M55, L1)
      L16 == NXor(M56, L0)
      L17 == NXor(M57, L1)
      L18 == NXor(M58, L8)
      L19 == NXor(M63, L4)
      L20 == NXor(L0, L1)
      L21 == NXor(L1, L7)
      L22 == NXor(L3, L12)
      L23 == NXor(L18, L2)
      L24 == NXor(L15, L9)
      L25 == NXor(L6, L10)
      L26 == NXor(L7, L9)
      L27 == NXor(L8, L10)
      L28 == NXor(L11, L14)
      L29 == NXor(L11, L17)
      S7 == NNot(NXor(L6, L23))
  IN r \o <<M53, M62, L0, L2, L3, L4, L5, L6, L7, L9, L10, L11, L13,
            L14, L15, L16, L17, L18, L19, L20, L21, L22, L23, L24,
            L25, L26, L27, L28, L29, S7>>

AES_SBOX_6(r) ==
  LET
      L6 == r[108]
      L24 == r[124]
      L16 == r[116]
      L26 == r[126]
      L19 == r[119]
      L28 == r[128]
      L21 == r[121]
      L20 == r[120]
      L22 == r[122]
      L25 == r[125]
      L29 == r[129]
      L13 == r[113]
      L27 == r[127]
      S0 == NXor(L6, L24)
      S1 == NNot(NXor(L16, L26))
      S2 == NNot(NXor(L19, L28))
      S3 == NXor(L6, L21)
      S4 == NXor(L20, L22)
      S5 == NXor(L25, L29)
      S6 == NNot(NXor(L13, L27))
  IN r \o <<S0, S1, S2, S3, S4, S5, S6>>

\* V[0] = S0; ... V[7] = S7
AES_SBOX_out(r) == <<r[131], r[132], r[133], r[134], r[135], r[136], r[137], r[130]>>

AES_SBOX(V) ==
  AES_SBOX_out(AES_SBOX_6(AES_SBOX_5(AES_SBOX_4(AES_SBOX_3(AES_SBOX_2(AES_SBOX_1(V)))))))

\* a word as its 32 bits: element i + 1 is bit i, bit 0 the least significant
WordBits(w) == Tup([k \in 1..32 |-> Bit(w[4 - ((k - 1) \div 8)], (k - 1) % 8)])
BitsByte(b, k) == b[8*k+1] + 2*b[8*k+2] + 4*b[8*k+3] + 8*b[8*k+4]
                  + 16*b[8*k+5] + 32*b[8*k+6] + 64*b[8*k+7] + 128*b[8*k+8]
BitsWord(b) == <<BitsByte(b, 3), BitsByte(b, 2), BitsByte(b, 1), BitsByte(b, 0)>>

\* bit i of a mask below 2^31
MaskBit(mask, i) == IF i = 31 THEN 0 ELSE Bit(mask, i)

\* bit_permute_step<uint32_t>(x, mask, shift) on the bits of x:
\*   t = ((x >> shift) ^ x) & mask;  return (x ^ t) ^ (t << shift)
bit_permute_t(x, mask, shift) ==
  Tup([k \in 1..32 |->
         IF MaskBit(mask, k - 1) = 1
         THEN ((IF k + shift <= 32 THEN x[k + shift] ELSE 0) + x[k]) % 2
         ELSE 0])
bit_permute_out(x, t, shift) ==
  Tup([k \in 1..32 |-> (x[k] + t[k] + (IF k - 1 >= shift THEN t[k - shift] ELSE 0)) % 2])
bit_permute_step(x, mask, shift) == bit_permute_out(x, bit_permute_t(x, mask, shift), shift)

\* I[i] = (x >> (28-4*i)) & 0xF
SE_word_slices(x) ==
  Tup([i \in 1..8 |-> x[33 - 4*i] + 2*x[34 - 4*i] + 4*x[35 - 4*i] + 8*x[36 - 4*i]])
\* x = (x << 4) + (I[i] & 0xF), i = 0..7
SE_word_join(S) == Tup([k \in 1..32 |-> Bit(S[8 - ((k - 1) \div 4)], (k - 1) % 4)])

\* the S-box applied to each of the four bytes of a word
SE_word(w) ==
  BitsWord(
    bit_permute_step(bit_permute_step(bit_permute_step(bit_permute_step(
      SE_word_join(AES_SBOX(SE_word_slices(
        bit_permute_step(bit_permute_step(bit_permute_step(bit_permute_step(
          WordBits(w),
          11141290, 7),      \* 0x00aa00aa
          52428, 14),        \* 0x0000cccc
          15728880, 4),      \* 0x00f000f0
          65280, 8)))),      \* 0x0000ff00
      168430090, 3),         \* 0x0a0a0a0a
      13369548, 6),          \* 0x00cc00cc
      61680, 12),            \* 0x0000f0f0
      65280, 8))             \* 0x0000ff00

\* the T-tables, computed at first use
AES_TE == [i \in 0..255 |-> make_uint32(xtime(SE(i)), SE(i), SE(i), xtime3(SE(i)))]
AES_TD == [i \in 0..255 |-> InvMixColumn(SD(i))]

\* the AES_T macro
AES_T(T, K, V0, V1, V2, V3) ==
  WXor(WXor(WXor(WXor(K, T[get_byte(0, V0)]),
                 rotr8(T[get_byte(1, V1)])),
            rotr16(T[get_byte(2, V2)])),
       rotr24(T[get_byte(3, V3)]))

(***************************************************************************)
(* AES: the base (T-table) implementation                                  *)
(***************************************************************************)
\* the bytes of a word sequence, each word big-endian (store_be)
WordsBytes(ws) == Tup([i \in 1..(4 * Len(ws)) |-> ws[((i - 1) \div 4) + 1][((i - 1) % 4) + 1]])

\* Hit every cache line of a 256-word table: Z |= T[i], i += cache_line_size / sizeof(uint32_t)
RECURSIVE SweepWords(_, _, _, _)
SweepWords(T, i, step, Z) ==
  IF i >= 256 \/ Len(Z) # 4 THEN Z ELSE SweepWords(T, i + step, step, WOr(Z, T[i]))

\* ... and of the 256-byte SD: Z |= SD[i], i += cache_line_size
RECURSIVE SweepSD(_, _, _)
SweepSD(i, step, Z) ==
  IF i >= 256 \/ Len(Z) # 4 THEN Z ELSE SweepSD(i + step, step, WOr(Z, <<0, 0, 0, SD(i)>>))

\* the indexes the sweep loops read: i = 0; i < 256; i += step
RECURSIVE SweepIndexes(_, _)
SweepIndexes(i, step) == IF i >= 256 \/ step <= 0 THEN {} ELSE {i} \cup SweepIndexes(i + step, step)

\* alignas(64) of SE and SD, and the alignment of the storage of TE and TD
TableAlignment == 64

\* the cache lines the bytes addr .. addr + bytes - 1 lie in
LinesOf(addr, bytes, cache_line_size) == {(addr + b) \div cache_line_size : b \in 0..(bytes - 1)}
\* the cache lines the entries of the given indexes lie in
LinesRead(addr, indexes, entry_bytes, cache_line_size) ==
  {(addr + i * entry_bytes) \div cache_line_size : i \in indexes}

\* cache_line_size / sizeof(uint32_t)
SweepStep(cache_line_size) == cache_line_size \div 4

NoSweep == [TE |-> {}, TD |-> {}, SD |-> {}]
\* the lines the sweep of aes_encrypt_n reads
EncryptSweep(tables, cache_line_size) ==
  [NoSweep EXCEPT !.TE = LinesRead(tables.TE, SweepIndexes(0, SweepStep(cache_line_size)), 4,
                                   cache_line_size)]
\* the lines the sweeps of aes_decrypt_n read
DecryptSweep(tables, cache_line_size) ==
  [NoSweep EXCEPT !.TD = LinesRead(tables.TD, SweepIndexes(0, SweepStep(cache_line_size)), 4,
                                   cache_line_size),
                  !.SD = LinesRead(tables.SD, SweepIndexes(0, cache_line_size), 1, cache_line_size)]

\* where a build can put the three tables: each at a multiple of its alignment
AlignedLayout == [TE |-> 0, TD |-> 2048, SD |-> 4096]
TableLayouts ==
  { [TE |-> t, TD |-> 2048 + t, SD |-> 4096 + d] : t \in {0, TableAlignment}, d \in {0, TableAlignment} }

EncryptZ_unmasked(cache_line_size) ==
  SweepWords(AES_TE, 0, cache_line_size \div 4, ZeroWord)

\* Z after the sweep of aes_encrypt_n: masked by TE[82]
EncryptZ(cache_line_size) ==
  WAnd(SweepWords(AES_TE, 0, cache_line_size \div 4, ZeroWord), AES_TE[82])

\* Z after the sweeps of aes_decrypt_n: masked by TD[99]
DecryptZ(cache_line_size) ==
  WAnd(SweepSD(0, cache_line_size,
               SweepWords(AES_TD, 0, cache_line_size \div 4, ZeroWord)), AES_TD[99])

\* four AES_T steps of aes_encrypt_n with the key words EK[r..r+3]:
\*   AES_T(TE, EK[r], V0, V1, V2, V3), AES_T(TE, EK[r+1], V1, V2, V3, V0), ...
EncryptQuad(EK, r, V) ==
  << AES_T(AES_TE, EK[r + 1], V[1], V[2], V[3], V[4]),
     AES_T(AES_TE, EK[r + 2], V[2], V[3], V[4], V[1]),
     AES_T(AES_TE, EK[r + 3], V[3], V[4], V[1], V[2]),
     AES_T(AES_TE, EK[r + 4], V[4], V[1], V[2], V[3]) >>

\* for(r = 8; r < EK.size(); r += 8): Bs is <<B0, B1, B2, B3>>
RECURSIVE EncryptRounds(_, _, _)
EncryptRounds(EK, r, Bs) ==
  IF r >= Len(EK) \/ Len(Bs) # 4 THEN Bs
  ELSE EncryptRounds(EK, r + 8, EncryptQuad(EK, r + 4, EncryptQuad(EK, r, Bs)))

\* T0..T3 of a block: the input words xored with EK[0..3], T0 also with Z
EncryptFirst(in, EK, Z) ==
  << WXor(WXor(load_be(in, 0), EK[1]), Z), WXor(load_be(in, 1), EK[2]),
     WXor(load_be(in, 2), EK[3]), WXor(load_be(in, 3), EK[4]) >>

\* static_cast<uint8_t>(TE[get_byte(n, B)] >> 8)
EncryptS(n, B) == AES_TE[get_byte(n, B)][3]

\* the sixteen output bytes of a block
EncryptLast(Bs, ME) ==
  << BXor(EncryptS(0, Bs[1]), ME[1]),  BXor(EncryptS(1, Bs[2]), ME[2]),
     BXor(EncryptS(2, Bs[3]), ME[3]),  BXor(EncryptS(3, Bs[4]), ME[4]),
     BXor(EncryptS(0, Bs[2]), ME[5]),  BXor(EncryptS(1, Bs[3]), ME[6]),
     BXor(EncryptS(2, Bs[4]), ME[7]),  BXor(EncryptS(3, Bs[1]), ME[8]),
     BXor(EncryptS(0, Bs[3]), ME[9]),  BXor(EncryptS(1, Bs[4]), ME[10]),
     BXor(EncryptS(2, Bs[1]), ME[11]), BXor(EncryptS(3, Bs[2]), ME[12]),
     BXor(EncryptS(0, Bs[4]), ME[13]), BXor(EncryptS(1, Bs[1]), ME[14]),
     BXor(EncryptS(2, Bs[2]), ME[15]), BXor(EncryptS(3, Bs[3]), ME[16]) >>

\* one block of aes_encrypt_n
EncryptBlock(in, EK, ME, Z) ==
  EncryptLast(EncryptRounds(EK, 8, EncryptQuad(EK, 4, EncryptFirst(in, EK, Z))), ME)

\* aes_encrypt_n on a whole number of blocks
RECURSIVE EncryptBlocks(_, _, _, _)
EncryptBlocks(in, EK, ME, Z) ==
  IF Len(in) < 16 THEN <<>>
  ELSE EncryptBlock(SubSeq(in, 1, 16), EK, ME, Z)
         \o EncryptBlocks(SubSeq(in, 17, Len(in)), EK, ME, Z)

aes_encrypt_n(in, EK, ME, cache_line_size) ==
  EncryptBlocks(in, EK, ME, EncryptZ(cache_line_size))

\* four AES_T steps of aes_decrypt_n with the key words DK[r..r+3]:
\*   AES_T(TD, DK[r], V0, V3, V2, V1), AES_T(TD, DK[r+1], V1, V0, V3, V2), ...
DecryptQuad(DK, r, V) ==
  << AES_T(AES_TD, DK[r + 1], V[1], V[4], V[3], V[2]),
     AES_T(AES_TD, DK[r + 2], V[2], V[1], V[4], V[3]),
     AES_T(AES_TD, DK[r + 3], V[3], V[2], V[1], V[4]),
     AES_T(AES_TD, DK[r + 4], V[4], V[3], V[2], V[1]) >>

\* for(r = 8; r < DK.size(); r += 8)
RECURSIVE DecryptRounds(_, _, _)
DecryptRounds(DK, r, Bs) ==
  IF r >= Len(DK) \/ Len(Bs) # 4 THEN Bs
  ELSE DecryptRounds(DK, r + 8, DecryptQuad(DK, r + 4, DecryptQuad(DK, r, Bs)))

DecryptFirst(in, DK, Z) ==
  << WXor(WXor(load_be(in, 0), DK[1]), Z), WXor(load_be(in, 1), DK[2]),
     WXor(load_be(in, 2), DK[3]), WXor(load_be(in, 3), DK[4]) >>

DecryptS(n, B) == SD(get_byte(n, B))

DecryptLast(Bs, MD) ==
  << BXor(DecryptS(0, Bs[1]), MD[1]),  BXor(DecryptS(1, Bs[4]), MD[2]),
     BXor(DecryptS(2, Bs[3]), MD[3]),  BXor(DecryptS(3, Bs[2]), MD[4]),
     BXor(DecryptS(0, Bs[2]), MD[5]),  BXor(DecryptS(1, Bs[1]), MD[6]),
     BXor(DecryptS(2, Bs[4]), MD[7]),  BXor(DecryptS(3, Bs[3]), MD[8]),
     BXor(DecryptS(0, Bs[3]), MD[9]),  BXor(DecryptS(1, Bs[2]), MD[10]),
     BXor(DecryptS(2, Bs[1]), MD[11]), BXor(DecryptS(3, Bs[4]), MD[12]),
     BXor(DecryptS(0, Bs[4]), MD[13]), BXor(DecryptS(1, Bs[3]), MD[14]),
     BXor(DecryptS(2, Bs[2]), MD[15]), BXor(DecryptS(3, Bs[1]), MD[16]) >>

\* one block of aes_decrypt_n
DecryptBlock(in, DK, MD, Z) ==
  DecryptLast(DecryptRounds(DK, 8, DecryptQuad(DK, 4, DecryptFirst(in, DK, Z))), MD)

RECURSIVE DecryptBlocks(_, _, _, _)
DecryptBlocks(in, DK, MD, Z) ==
  IF Len(in) < 16 THEN <<>>
  ELSE DecryptBlock(SubSeq(in, 1, 16), DK, MD, Z)
         \o DecryptBlocks(SubSeq(in, 17, Len(in)), DK, MD, Z)

aes_decrypt_n(in, DK, MD, cache_line_size) ==
  DecryptBlocks(in, DK, MD, DecryptZ(cache_line_size))

\* the round constants, as words
RC_from_two == << <<2,0,0,0>>, <<4,0,0,0>>, <<8,0,0,0>>, <<16,0,0,0>>, <<32,0,0,0>>,
                 <<64,0,0,0>>, <<128,0,0,0>>, <<27,0,0,0>>, <<54,0,0,0>>, <<108,0,0,0>> >>
RC == << <<1,0,0,0>>, <<2,0,0,0>>, <<4,0,0,0>>, <<8,0,0,0>>, <<16,0,0,0>>,
         <<32,0,0,0>>, <<64,0,0,0>>, <<128,0,0,0>>, <<27,0,0,0>>, <<54,0,0,0>> >>

\* XEK[idx], given XEK[0..idx-1] (xek is 1-based: XEK[i] is xek[i+1])
KeyExpandWord(xek, X, idx) ==
  IF idx % X = 0
  THEN WXor(WXor(xek[idx - X + 1], RC[((idx - X) \div X) + 1]), rotl8(SE_word(xek[idx])))
  ELSE IF X = 8 /\ idx % X = 4 THEN WXor(xek[idx - X + 1], SE_word(xek[idx]))
  ELSE WXor(xek[idx - X + 1], xek[idx])

\* the j-loop of the key expansion: n words from index Len(xek) on
RECURSIVE KeyExpandGroup(_, _, _)
KeyExpandGroup(xek, X, n) ==
  IF n = 0 \/ Len(xek) = 0 THEN xek
  ELSE KeyExpandGroup(Append(xek, KeyExpandWord(xek, X, Len(xek))), X, n - 1)

\* for(i = X; i < 4*(rounds+1); i += X)
RECURSIVE KeyExpand(_, _, _)
KeyExpand(xek, X, limit) ==
  IF Len(xek) >= limit THEN xek ELSE KeyExpand(KeyExpandGroup(xek, X, X), X, limit)

\* XDK[i] after the InvMixColumn pass
DecKeyWord(w) ==
  WXor(WXor(WXor(InvMixColumn(get_byte(0, w)),
                 rotr8(InvMixColumn(get_byte(1, w)))),
            rotr16(InvMixColumn(get_byte(2, w)))),
       rotr24(InvMixColumn(get_byte(3, w))))

\* whether BOTAN_ASSERT_NOMSG(X == 4 || X == 6 || X == 8) lets the length through
KeyLengthAsserted(length) == (length \div 4) \in {4, 6, 8}

\* XEK: length + 32 words, zero-filled, then the key words and their expansion
KeyScheduleXEK(key, length, X, rounds) ==
  SubSeq(KeyExpand(Tup([i \in 1..X |-> load_be(key, i - 1)]), X, 4 * (rounds + 1))
           \o Tup([i \in 1..(length + 32) |-> ZeroWord]),
         1, length + 32)

\* XDK after the loop that copies the round keys of XEK in reverse order
KeyScheduleXDKCopy(XEK, length, rounds) ==
  Tup([i \in 1..(length + 32) |->
         IF i <= 4 * (rounds + 1)
         THEN XEK[4 * rounds - 4 * ((i - 1) \div 4) + ((i - 1) % 4) + 1]
         ELSE ZeroWord])

\* XDK after for(i = 4; i != length + 24; ++i) XDK[i] = InvMixColumn(...)
KeyScheduleXDKMix(XDK, length) ==
  Tup([i \in 1..(length + 32) |->
         IF i - 1 >= 4 /\ i - 1 < length + 24 THEN DecKeyWord(XDK[i]) ELSE XDK[i]])

\* byte-reversed subkeys, for ARM
ReverseWords(K) == Tup([i \in 1..Len(K) |-> reverse_bytes(K[i])])

KeyScheduleBuffers_all_words(XEK, XDK, length, rounds, has_arm_aes) ==
  [EK |-> XEK, DK |-> XDK,
   ME |-> WordsBytes(SubSeq(XEK, 4 * rounds + 1, 4 * rounds + 4)),
   MD |-> WordsBytes(SubSeq(XEK, 1, 4))]

\* the buffers filled from XEK and XDK
KeyScheduleBuffers(XEK, XDK, length, rounds, has_arm_aes) ==
  [EK |-> IF has_arm_aes THEN ReverseWords(SubSeq(XEK, 1, length + 24))
          ELSE SubSeq(XEK, 1, length + 24),
   DK |-> IF has_arm_aes THEN ReverseWords(SubSeq(XDK, 1, length + 24))
          ELSE SubSeq(XDK, 1, length + 24),
   ME |-> WordsBytes(SubSeq(XEK, 4 * rounds + 1, 4 * rounds + 4)),
   MD |-> WordsBytes(SubSeq(XEK, 1, 4))]

KeyScheduleFrom(XEK, length, rounds, has_arm_aes) ==
  KeyScheduleBuffers(XEK, KeyScheduleXDKMix(KeyScheduleXDKCopy(XEK, length, rounds), length),
                     length, rounds, has_arm_aes)

\* aes_key_schedule: the four buffers it leaves, for a key the assertion lets through
aes_key_schedule(key, has_arm_aes) ==
  KeyScheduleFrom(KeyScheduleXEK(key, Len(key), Len(key) \div 4, (Len(key) \div 4) + 6),
                  Len(key), (Len(key) \div 4) + 6, has_arm_aes)

(***************************************************************************)
(* AES: the hardware backends (AES-NI, ARMv8, POWER8, vperm).  Their code  *)
(* is not part of the modelled sources; they are modelled as the FIPS-197  *)
(* cipher (SubBytes, ShiftRows, MixColumns, AddRoundKey) over the round    *)
(* keys their key schedule leaves in EK/DK.                                *)
(***************************************************************************)
\* multiplication by x^k steps in GF(2^8), independent of the T-tables
GMul2(a) == BXor((a * 2) % 256, IF a >= 128 THEN 27 ELSE 0)
GMul3(a) == BXor(GMul2(a), a)
GMul9(a) == BXor(GMul2(GMul2(GMul2(a))), a)
GMul11(a) == BXor(BXor(GMul2(GMul2(GMul2(a))), GMul2(a)), a)
GMul13(a) == BXor(BXor(GMul2(GMul2(GMul2(a))), GMul2(GMul2(a))), a)
GMul14(a) == BXor(BXor(GMul2(GMul2(GMul2(a))), GMul2(GMul2(a))), GMul2(a))

\* the state is 16 bytes, column by column: byte 4*c + r + 1 is row r of column c
BlockXor(s, k) == Tup([i \in 1..16 |-> BXor(s[i], k[i])])
SubBytes(s) == Tup([i \in 1..16 |-> SE(s[i])])
InvSubBytes(s) == Tup([i \in 1..16 |-> SD(s[i])])
ShiftRows(s) ==
  Tup([i \in 1..16 |-> LET c == (i - 1) \div 4  r == (i - 1) % 4
                   IN s[4 * ((c + r) % 4) + r + 1]])
InvShiftRows(s) ==
  Tup([i \in 1..16 |-> LET c == (i - 1) \div 4  r == (i - 1) % 4
                   IN s[4 * ((c + 4 - r) % 4) + r + 1]])
MixColumns(s) ==
  Tup([i \in 1..16 |->
     LET c == (i - 1) \div 4  r == (i - 1) % 4
         a(n) == s[4 * c + ((r + n) % 4) + 1]
     IN BXor(BXor(BXor(GMul2(a(0)), GMul3(a(1))), a(2)), a(3))])
InvMixColumns(s) ==
  Tup([i \in 1..16 |->
     LET c == (i - 1) \div 4  r == (i - 1) % 4
         a(n) == s[4 * c + ((r + n) % 4) + 1]
     IN BXor(BXor(BXor(GMul14(a(0)), GMul11(a(1))), GMul13(a(2))), GMul9(a(3)))])

\* FIPS-197 Cipher: rks is the sequence of 16-byte round keys
RECURSIVE FipsRounds(_, _, _)
FipsRounds(s, rks, r) ==
  IF r >= Len(rks) \/ Len(s) # 16 THEN BlockXor(ShiftRows(SubBytes(s)), rks[r])
  ELSE FipsRounds(BlockXor(MixColumns(ShiftRows(SubBytes(s))), rks[r]), rks, r + 1)

FipsCipher(in, rks) == FipsRounds(BlockXor(in, rks[1]), rks, 2)

\* FIPS-197 EqInvCipher: dks is the sequence of 16-byte decryption round keys
RECURSIVE FipsInvRounds(_, _, _)
FipsInvRounds(s, dks, r) ==
  IF r >= Len(dks) \/ Len(s) # 16 THEN BlockXor(InvShiftRows(InvSubBytes(s)), dks[r])
  ELSE FipsInvRounds(BlockXor(InvMixColumns(InvShiftRows(InvSubBytes(s))), dks[r]), dks, r + 1)

FipsEqInvCipher(in, dks) == FipsInvRounds(BlockXor(in, dks[1]), dks, 2)

\* FIPS-197 KeyExpansion, with the S-box table
SubWord(w) == <<SE(w[1]), SE(w[2]), SE(w[3]), SE(w[4])>>

\* w[i] = w[i-Nk] xor temp (w is 1-based: w[i] of FIPS-197 is w[i+1])
FipsExpandWord(w, Nk, i) ==
  WXor(w[i - Nk + 1],
       IF i % Nk = 0 THEN WXor(SubWord(rotl8(w[i])), RC[i \div Nk])
       ELSE IF Nk = 8 /\ i % Nk = 4 THEN SubWord(w[i])
       ELSE w[i])

RECURSIVE FipsKeyExpansion(_, _, _)
FipsKeyExpansion(w, Nk, total) ==
  IF Len(w) >= total THEN w
  ELSE FipsKeyExpansion(Append(w, FipsExpandWord(w, Nk, Len(w))), Nk, total)

\* 16-byte round keys from a word sequence
RoundKeys(ws) == Tup([r \in 1..(Len(ws) \div 4) |-> WordsBytes(SubSeq(ws, 4 * r - 3, 4 * r))])
\* ... and the word sequence of a list of round keys
KeysWords(rks) == Tup([i \in 1..(4 * Len(rks)) |-> load_be(rks[((i - 1) \div 4) + 1], (i - 1) % 4)])

\* the key lengths the AES-NI and vperm key schedules are given
HwKeyLengthOk(length) == length \in {16, 24, 32}

\* the round keys of the equivalent inverse cipher
HwDecRoundKeys(rks) ==
  Tup([r \in 1..Len(rks) |->
         IF r = 1 \/ r = Len(rks) THEN rks[Len(rks) + 1 - r]
         ELSE InvMixColumns(rks[Len(rks) + 1 - r])])

HwBuffers(w) == [EK |-> w, DK |-> KeysWords(HwDecRoundKeys(RoundKeys(w)))]

\* aesni_key_schedule / vperm_key_schedule: EK holds all round keys, DK the
\* round keys of the equivalent inverse cipher; ME and MD are not used
HwKeySchedule(key) ==
  HwBuffers(FipsKeyExpansion(Tup([i \in 1..(Len(key) \div 4) |-> load_be(key, i - 1)]),
                             Len(key) \div 4, 4 * ((Len(key) \div 4) + 7)))

\* The words a hardware backend reads of a round-key buffer, and the 16 bytes
\* it reads of ME / MD.  A read past the end of a buffer is not defined; the
\* model lets it return the word g.
ReadWords(K, n, g) == Tup([i \in 1..n |-> IF i <= Len(K) THEN K[i] ELSE g])
ReadLastKey(M, g) == IF Len(M) = 16 THEN M ELSE g \o g \o g \o g

\* the round keys a hardware backend reads from the buffers of the instance
HwEncKeys(backend, EK, ME, rounds, g) ==
  IF backend \in {"aesni", "vperm"} THEN RoundKeys(ReadWords(EK, 4 * (rounds + 1), g))
  ELSE IF backend = "armv8"
       THEN Append(RoundKeys(ReverseWords(ReadWords(EK, 4 * rounds, g))), ReadLastKey(ME, g))
       ELSE Append(RoundKeys(ReadWords(EK, 4 * rounds, g)), ReadLastKey(ME, g))

HwDecKeys(backend, DK, MD, rounds, g) ==
  IF backend \in {"aesni", "vperm"} THEN RoundKeys(ReadWords(DK, 4 * (rounds + 1), g))
  ELSE IF backend = "armv8"
       THEN Append(RoundKeys(ReverseWords(ReadWords(DK, 4 * rounds, g))), ReadLastKey(MD, g))
       ELSE Append(RoundKeys(ReadWords(DK, 4 * rounds, g)), ReadLastKey(MD, g))

\* whether the backend's reads stay inside the buffers
HwReadsInside(backend, K, M, rounds) ==
  IF backend \in {"aesni", "vperm"} THEN Len(K) >= 4 * (rounds + 1)
  ELSE Len(K) >= 4 * rounds /\ Len(M) = 16

RECURSIVE HwEncryptBlocks(_, _)
HwEncryptBlocks(in, rks) ==
  IF Len(in) < 16 THEN <<>>
  ELSE FipsCipher(SubSeq(in, 1, 16), rks) \o HwEncryptBlocks(SubSeq(in, 17, Len(in)), rks)

RECURSIVE HwDecryptBlocks(_, _)
HwDecryptBlocks(in, dks) ==
  IF Len(in) < 16 THEN <<>>
  ELSE FipsEqInvCipher(SubSeq(in, 1, 16), dks) \o HwDecryptBlocks(SubSeq(in, 17, Len(in)), dks)

(***************************************************************************)
(* AES: the facade AES_128 / AES_192 / AES_256 and its dispatch            *)
(***************************************************************************)
\* Most blocks in one encrypt_n / decrypt_n call of the model
MaxBlocks == 2

CacheLineSizes == {32, 64, 128}

\* every combination of the four feature bits; the cache-line size is read
\* by the base implementation only, so it varies where no bit is set
Cpuids ==
  { c \in [aes_ni : BOOLEAN, arm_aes : BOOLEAN, power_crypto : BOOLEAN,
           vperm : BOOLEAN, sse2 : BOOLEAN, cache_line_size : CacheLineSizes] :
      /\ c.cache_line_size = 64 \/ ~(c.aes_ni \/ c.arm_aes \/ c.power_crypto \/ c.vperm)
      /\ c.sse2 = c.aes_ni }    \* a CPU with AES-NI has SSE2

\* the key of n bytes 00, step, 2*step, ...
AesKey(n, step) == Tup([i \in 1..n |-> ((i - 1) * step) % 256])

\* keys of the three AES key lengths
AesKeys == {AesKey(16, 17), AesKey(16, 1), AesKey(24, 1), AesKey(32, 1)}
\* keys of other lengths
OtherKeys == {AesKey(15, 1), AesKey(17, 1), AesKey(33, 1), AesKey(36, 1)}

\* the block 00 11 22 .. ff, and inputs of 1..MaxBlocks blocks
AesBlock == Tup([i \in 1..16 |-> ((i - 1) * 17) % 256])
RECURSIVE AesInput(_)
AesInput(n) == IF n = 0 THEN <<>> ELSE AesInput(n - 1) \o BlockXor(AesBlock, Tup([i \in 1..16 |-> n - 1]))
AesInputs == {AesInput(n) : n \in 1..MaxBlocks}

\* The round loop reads K[r..r+7] for r = 8, 16, .. while r < K.size(): a
\* buffer whose size is not a multiple of 8 is read past its end.  What such
\* a read returns is not defined; the model lets it return either of two words.
OutOfBoundsWords(K) == IF Len(K) % 8 = 0 THEN {ZeroWord} ELSE {ZeroWord, <<255, 255, 255, 255>>}

\* the rounds of the class of the instance, and what a read outside the
\* buffers can return in a call the given backend serves
AesRounds(key) == (Len(key) \div 4) + 6
OverreadWords(backend, K, M, key) ==
  IF backend = "base" THEN OutOfBoundsWords(K)
  ELSE IF HwReadsInside(backend, K, M, AesRounds(key)) THEN {ZeroWord}
  ELSE {ZeroWord, <<255, 255, 255, 255>>}

WithOverread(K, g) ==
  IF Len(K) % 8 = 0 THEN K ELSE K \o Tup([i \in 1..(8 - (Len(K) % 8)) |-> g])

encrypt_n_backend_power_first(c) ==
  IF c.aes_ni THEN "aesni"
  ELSE IF c.power_crypto THEN "power8"
  ELSE IF c.arm_aes THEN "armv8"
  ELSE IF c.vperm THEN "vperm"
  ELSE "base"

\* the backend encrypt_n calls
encrypt_n_backend(c) ==
  IF c.aes_ni THEN "aesni"
  ELSE IF c.arm_aes THEN "armv8"
  ELSE IF c.power_crypto THEN "power8"
  ELSE IF c.vperm THEN "vperm"
  ELSE "base"

\* the backend decrypt_n calls
decrypt_n_backend(c) ==
  IF c.aes_ni THEN "aesni"
  ELSE IF c.arm_aes THEN "armv8"
  ELSE IF c.power_crypto THEN "power8"
  ELSE IF c.vperm THEN "vperm"
  ELSE "base"

\* aes_provider(), which provider() returns
aes_provider(c) ==
  IF c.aes_ni THEN "aesni"
  ELSE IF c.power_crypto THEN "power8"
  ELSE IF c.arm_aes THEN "armv8"
  ELSE IF c.vperm THEN "vperm"
  ELSE "base"

\* the branch key_schedule takes
key_schedule_branch(c) ==
  IF c.aes_ni THEN "aesni"
  ELSE IF c.arm_aes THEN "armv8"
  ELSE IF c.power_crypto THEN "power8"
  ELSE IF c.vperm THEN "vperm"
  ELSE "base"

\* the key schedule key_schedule calls: aesni_key_schedule, vperm_key_schedule
\* or the base aes_key_schedule (also under ARMv8 and POWER8)
key_schedule_backend(c) ==
  IF c.aes_ni THEN "aesni"
  ELSE IF c.arm_aes THEN "base"
  ELSE IF c.power_crypto THEN "base"
  ELSE IF c.vperm THEN "vperm"
  ELSE "base"

\* the schedules of the keys of the model, computed once
BaseKeySchedules ==
  [key \in {k \in AesKeys \cup OtherKeys : KeyLengthAsserted(Len(k))}, arm \in BOOLEAN |->
     aes_key_schedule(key, arm)]
HwKeySchedules == [key \in AesKeys |-> HwKeySchedule(key)]

\* The machines on which the model changes the feature vector between AES
\* calls: an x86 with SSSE3 and no AES-NI.  There the calls draw their key and
\* their input from one value each, so that every interleaving with the CPUID
\* calls is explored.
HookedMachines ==
  { [aes_ni |-> FALSE, arm_aes |-> FALSE, power_crypto |-> FALSE, vperm |-> TRUE,
     sse2 |-> TRUE, cache_line_size |-> 64] }
KeysOn(machine) == IF machine \in HookedMachines THEN {AesKey(16, 1)} ELSE AesKeys \cup OtherKeys
InputsOn(machine) == IF machine \in HookedMachines THEN {AesInput(1)} ELSE AesInputs

NoAesOp == [name |-> "new", backend |-> "none", ret |-> "ok", len |-> 0,
            in |-> <<>>, out |-> <<>>, pt |-> <<>>]

AesIdle ==
  /\ cpuid = [aes_ni |-> FALSE, arm_aes |-> FALSE, power_crypto |-> FALSE,
              vperm |-> FALSE, sse2 |-> FALSE, cache_line_size |-> 64]
  /\ m_EK = <<>> /\ m_DK = <<>> /\ m_ME = <<>> /\ m_MD = <<>>
  /\ aes_key = <<>> /\ aes_key_backend = "none"
  /\ aes_tables = AlignedLayout /\ aes_swept = NoSweep
  /\ aes_op = NoAesOp

\* a new instance, on any CPU
AesNew ==
  /\ cpuid \in Cpuids
  /\ m_EK = <<>> /\ m_DK = <<>> /\ m_ME = <<>> /\ m_MD = <<>>
  /\ aes_key = <<>> /\ aes_key_backend = "none"
  /\ aes_tables \in TableLayouts /\ aes_swept = NoSweep
  /\ aes_tables = AlignedLayout \/ encrypt_n_backend(cpuid) = "base"
  /\ aes_op = NoAesOp

\* a new instance on a machine whose vector the test hook changes
HookedNew ==
  /\ cpuid \in HookedMachines
  /\ m_EK = <<>> /\ m_DK = <<>> /\ m_ME = <<>> /\ m_MD = <<>>
  /\ aes_key = <<>> /\ aes_key_backend = "none"
  /\ aes_tables = AlignedLayout /\ aes_swept = NoSweep
  /\ aes_op = NoAesOp

\* AES_nnn::key_schedule(key, length)
key_schedule ==
  /\ UNCHANGED nonAesVars
  /\ UNCHANGED aes_tables /\ aes_swept' = NoSweep
  /\ \E key \in KeysOn(cpuid_detected) :
    LET backend == key_schedule_backend(cpuid)
        op(r) == [name |-> "key_schedule", backend |-> backend, ret |-> r,
                  len |-> Len(key), in |-> <<>>, out |-> <<>>, pt |-> <<>>]
    IN IF backend = "base"
       THEN IF KeyLengthAsserted(Len(key))
            THEN \E ks \in {BaseKeySchedules[key, cpuid.arm_aes]} :
                    /\ m_EK' = ks.EK /\ m_DK' = ks.DK
                    /\ m_ME' = ks.ME /\ m_MD' = ks.MD
                    /\ aes_key' = key /\ aes_key_backend' = key_schedule_branch(cpuid)
                    /\ aes_op' = op("ok")
                    /\ UNCHANGED cpuid
            ELSE \* the assertion throws before any buffer is touched
                 /\ aes_op' = op("Internal_Error")
                 /\ UNCHANGED <<cpuid, m_EK, m_DK, m_ME, m_MD, aes_key, aes_key_backend>>
       ELSE \* aesni_key_schedule / vperm_key_schedule get the key of their class
            /\ HwKeyLengthOk(Len(key))
            /\ \E ks \in {HwKeySchedules[key]} :
                  /\ m_EK' = ks.EK /\ m_DK' = ks.DK
                  /\ aes_key' = key /\ aes_key_backend' = key_schedule_branch(cpuid)
                  /\ aes_op' = op("ok")
                  /\ UNCHANGED <<cpuid, m_ME, m_MD>>

\* AES_nnn::encrypt_n(in, out, blocks)
encrypt_n ==
  /\ UNCHANGED nonAesVars
  /\ UNCHANGED aes_tables
  /\ aes_swept' = IF m_EK # <<>> /\ encrypt_n_backend(cpuid) = "base" /\ Len(m_ME) = 16
                  THEN EncryptSweep(aes_tables, cpuid.cache_line_size) ELSE NoSweep
  /\ \E in \in InputsOn(cpuid_detected), g \in OverreadWords(encrypt_n_backend(cpuid), m_EK, m_ME, aes_key) :
    LET backend == encrypt_n_backend(cpuid)
        op(r, out) == [name |-> "encrypt_n", backend |-> backend, ret |-> r,
                       len |-> 0, in |-> in, out |-> out, pt |-> in]
    IN /\ UNCHANGED <<cpuid, m_EK, m_DK, m_ME, m_MD, aes_key, aes_key_backend>>
       /\ IF m_EK = <<>>
          THEN aes_op' = op("Key_Not_Set", <<>>)
          ELSE IF backend = "base" /\ Len(m_ME) # 16
          THEN aes_op' = op("Internal_Error", <<>>)   \* BOTAN_ASSERT(... ME.size() == 16)
          ELSE IF backend = "base"
          THEN aes_op' = op("ok", aes_encrypt_n(in, WithOverread(m_EK, g), m_ME,
                                                cpuid.cache_line_size))
          ELSE aes_op' = op("ok", HwEncryptBlocks(in, HwEncKeys(backend, m_EK, m_ME,
                                                                AesRounds(aes_key), g)))

\* AES_nnn::decrypt_n(in, out, blocks): the input is the output of the
\* encrypt_n just made, or a fixed input
decrypt_n ==
  /\ UNCHANGED nonAesVars
  /\ UNCHANGED aes_tables
  /\ aes_swept' = IF m_DK # <<>> /\ decrypt_n_backend(cpuid) = "base" /\ Len(m_MD) = 16
                  THEN DecryptSweep(aes_tables, cpuid.cache_line_size) ELSE NoSweep
  /\ \E fresh \in BOOLEAN, g \in OverreadWords(decrypt_n_backend(cpuid), m_DK, m_MD, aes_key) :
    LET chained == ~fresh /\ aes_op.name = "encrypt_n" /\ aes_op.ret = "ok"
        in == IF chained THEN aes_op.out ELSE AesInput(1)
        backend == decrypt_n_backend(cpuid)
        op(r, out) == [name |-> "decrypt_n", backend |-> backend, ret |-> r,
                       len |-> 0, in |-> in, out |-> out,
                       pt |-> IF chained THEN aes_op.in ELSE <<>>]
    IN /\ UNCHANGED <<cpuid, m_EK, m_DK, m_ME, m_MD, aes_key, aes_key_backend>>
       /\ IF m_DK = <<>>
          THEN aes_op' = op("Key_Not_Set", <<>>)
          ELSE IF backend = "base" /\ Len(m_MD) # 16
          THEN aes_op' = op("Internal_Error", <<>>)   \* BOTAN_ASSERT(... MD.size() == 16)
          ELSE IF backend = "base"
          THEN aes_op' = op("ok", aes_decrypt_n(in, WithOverread(m_DK, g), m_MD,
                                                cpuid.cache_line_size))
          ELSE aes_op' = op("ok", HwDecryptBlocks(in, HwDecKeys(backend, m_DK, m_MD,
                                                                AesRounds(aes_key), g)))

\* AES_nnn::provider()
AES_provider ==
  /\ aes_op' = [NoAesOp EXCEPT !.name = "provider", !.ret = aes_provider(cpuid)]
  /\ aes_swept' = NoSweep
  /\ UNCHANGED <<cpuid, m_EK, m_DK, m_ME, m_MD, aes_key, aes_key_backend, aes_tables>>
  /\ UNCHANGED nonAesVars

clear_keeps_DK ==
  /\ m_EK' = <<>> /\ m_ME' = <<>> /\ m_MD' = <<>>
  /\ aes_key' = <<>> /\ aes_key_backend' = "none"
  /\ aes_op' = [NoAesOp EXCEPT !.name = "clear"]
  /\ UNCHANGED aes_tables /\ aes_swept' = NoSweep
  /\ UNCHANGED <<cpuid, m_DK>>
  /\ UNCHANGED nonAesVars

\* AES_nnn::clear()
clear ==
  /\ m_EK' = <<>> /\ m_DK' = <<>> /\ m_ME' = <<>> /\ m_MD' = <<>>
  /\ aes_key' = <<>> /\ aes_key_backend' = "none"
  /\ aes_op' = [NoAesOp EXCEPT !.name = "clear"]
  /\ UNCHANGED aes_tables /\ aes_swept' = NoSweep
  /\ UNCHANGED cpuid
  /\ UNCHANGED nonAesVars

(***************************************************************************)
(* CPUID: the process-wide feature vector.  Its code is not part of the    *)
(* modelled sources; CPUID_Tests::run (test_utils.cpp) calls has_sse2,     *)
(* clear_cpuid_bit and initialize.  A query initialises the vector when    *)
(* initialize() has not run yet.                                           *)
(***************************************************************************)
FeatureBits == {"aes_ni", "arm_aes", "power_crypto", "vperm", "sse2"}

\* the vectors a probe can give
DetectedCpuids ==
  [aes_ni : BOOLEAN, arm_aes : BOOLEAN, power_crypto : BOOLEAN, vperm : BOOLEAN,
   sse2 : BOOLEAN, cache_line_size : {64}]
\* the vector before the probe has run
NoFeatures ==
  [aes_ni |-> FALSE, arm_aes |-> FALSE, power_crypto |-> FALSE, vperm |-> FALSE,
   sse2 |-> FALSE, cache_line_size |-> 64]

features_without_any(features, bit) == [b \in DOMAIN features |-> IF b \in FeatureBits THEN FALSE ELSE features[b]]
\* g_processor_features &= ~bit
features_without(features, bit) == [features EXCEPT ![bit] = FALSE]

CpuidOp(name, bit, ret) == [name |-> name, bit |-> bit, ret |-> ret, before |-> cpuid]
NoCpuidOp == [name |-> "none", bit |-> "none", ret |-> FALSE, before |-> NoFeatures]

\* a process whose vector is the detected one
CpuidIdle ==
  /\ cpuid_detected = cpuid
  /\ cpuid_initialized = TRUE
  /\ cpuid_cleared = {}
  /\ cpuid_op = NoCpuidOp

\* a process that has not queried the vector yet, on any machine
CpuidNew ==
  /\ cpuid_detected \in DetectedCpuids
  /\ cpuid_initialized = FALSE
  /\ cpuid_cleared = {}
  /\ cpuid_op = NoCpuidOp

\* CPUID::initialize()
initialize ==
  /\ cpuid' = cpuid_detected
  /\ cpuid_initialized' = TRUE
  /\ cpuid_cleared' = {}
  /\ cpuid_op' = CpuidOp("initialize", "none", FALSE)
  /\ UNCHANGED <<cpuid_detected, m_EK, m_DK, m_ME, m_MD, aes_key, aes_key_backend, aes_tables, aes_swept, aes_op>>
  /\ UNCHANGED nonCpuidVars

\* CPUID::clear_cpuid_bit(bit)
clear_cpuid_bit ==
  /\ \E bit \in FeatureBits :
       /\ cpuid' = features_without(cpuid, bit)
       /\ cpuid_cleared' = cpuid_cleared \cup {bit}
       /\ cpuid_op' = CpuidOp("clear_cpuid_bit", bit, FALSE)
  /\ UNCHANGED <<cpuid_detected, cpuid_initialized, m_EK, m_DK, m_ME, m_MD, aes_key, aes_key_backend, aes_tables, aes_swept, aes_op>>
  /\ UNCHANGED nonCpuidVars

\* CPUID::has_cpuid_bit(bit), which has_sse2() and the other queries call
has_cpuid_bit ==
  /\ \E bit \in FeatureBits :
       IF cpuid_initialized
       THEN /\ cpuid_op' = CpuidOp("has_cpuid_bit", bit, cpuid[bit])
            /\ UNCHANGED <<cpuid, cpuid_initialized, cpuid_cleared>>
       ELSE \* the first query runs initialize()
            /\ cpuid' = cpuid_detected
            /\ cpuid_initialized' = TRUE
            /\ cpuid_cleared' = {}
            /\ cpuid_op' = CpuidOp("has_cpuid_bit", bit, cpuid_detected[bit])
  /\ UNCHANGED <<cpuid_detected, m_EK, m_DK, m_ME, m_MD, aes_key, aes_key_backend, aes_tables, aes_swept, aes_op>>
  /\ UNCHANGED nonCpuidVars

(***************************************************************************)
(* BigInt: a sign and a sequence of 64-bit words, least significant first. *)
(* A word is its eight bytes, most significant first.  The members of      *)
(* bigint.h (word_at, set_word_at, grow_to, set_sign, clear, byte_at) and   *)
(* the helpers round_up and high_bit are not part of the modelled sources.  *)
(***************************************************************************)
\* sizeof(word)
WORD_BYTES == 8
ZeroMpWord == Zeros(WORD_BYTES)

round_up(n, align) == IF n % align = 0 THEN n ELSE n + (align - (n % align))

word_at(reg, n) == IF n < Len(reg) THEN reg[n + 1] ELSE ZeroMpWord
grow_to(reg, n) ==
  IF n > Len(reg) THEN reg \o Tup([i \in 1..(round_up(n, 8) - Len(reg)) |-> ZeroMpWord]) ELSE reg
set_word_at(reg, i, w) == [grow_to(reg, i + 1) EXCEPT ![i + 1] = w]
byte_at(reg, n) == word_at(reg, n \div WORD_BYTES)[WORD_BYTES - (n % WORD_BYTES)]

\* CT::is_zero(w), as 1 or 0
CtIsZero(w) == IF w = ZeroMpWord THEN 1 ELSE 0

\* Data::calc_sig_words: sub stays 1 while the words from the top are zero
RECURSIVE SigWordsLoop(_, _, _, _)
SigWordsLoop(reg, i, sub, sig) ==
  IF i = Len(reg) THEN sig
  ELSE SigWordsLoop(reg, i + 1, sub * CtIsZero(reg[Len(reg) - i]),
                    sig - sub * CtIsZero(reg[Len(reg) - i]))
calc_sig_words(reg) == SigWordsLoop(reg, 0, 1, Len(reg))

\* the position of the highest set bit, counted from 1; 0 for 0
HighBit8(b) == IF b = 0 THEN 0 ELSE CHOOSE n \in 1..8 : 2^(n - 1) <= b /\ b < 2^n
TopByte(w) == CHOOSE k \in 1..WORD_BYTES : w[k] # 0 /\ \A j \in 1..(k - 1) : w[j] = 0
high_bit(w) == IF w = ZeroMpWord THEN 0 ELSE 8 * (WORD_BYTES - TopByte(w)) + HighBit8(w[TopByte(w)])

\* BigInt::bits, given sig_words()
BitsOfWords(reg, words) ==
  IF words = 0 THEN 0 ELSE (words - 1) * 8 * WORD_BYTES + high_bit(word_at(reg, words - 1))
bits(reg) == BitsOfWords(reg, calc_sig_words(reg))
bytes(reg) == round_up(bits(reg), 8) \div 8

\* BigInt::binary_encode: output[sig_bytes-i-1] = byte_at(i)
EncodeBytes(reg, sig_bytes) == Tup([k \in 1..sig_bytes |-> byte_at(reg, sig_bytes - k)])
binary_encode_out(reg) == EncodeBytes(reg, bytes(reg))

DecodeShift_without_shift(w, b) == [w EXCEPT ![WORD_BYTES] = BOr(@, b)]
\* (reg[i] << 8) | b
DecodeShift(w, b) == Tail(w) \o <<b>>

\* for(j = WORD_BYTES; j > 0; --j) reg[i] = (reg[i] << 8) | buf[top - j]
RECURSIVE DecodeWord(_, _, _, _)
DecodeWord(buf, top, j, w) ==
  IF j = 0 THEN w ELSE DecodeWord(buf, top, j - 1, DecodeShift(w, buf[top - j + 1]))

\* for(i = 0; i != length % WORD_BYTES; ++i) reg[length / WORD_BYTES] = (.. << 8) | buf[i]
RECURSIVE DecodeTopWord(_, _, _, _)
DecodeTopWord(buf, i, n, w) ==
  IF i = n THEN w ELSE DecodeTopWord(buf, i + 1, n, DecodeShift(w, buf[i + 1]))

\* BigInt::binary_decode: the words it leaves
binary_decode_reg(buf) ==
  Tup([i \in 1..round_up((Len(buf) \div WORD_BYTES) + 1, 8) |->
         IF i - 1 < Len(buf) \div WORD_BYTES
         THEN DecodeWord(buf, Len(buf) - WORD_BYTES * (i - 1), WORD_BYTES, ZeroMpWord)
         ELSE IF i - 1 = Len(buf) \div WORD_BYTES
         THEN DecodeTopWord(buf, 0, Len(buf) % WORD_BYTES, ZeroMpWord)
         ELSE ZeroMpWord])

\* word | (1 << k) and word & ~(1 << k)
WordSetBit(w, k) == [w EXCEPT ![WORD_BYTES - (k \div 8)] = BOr(@, 2^(k % 8))]
WordClearBit(w, k) == [w EXCEPT ![WORD_BYTES - (k \div 8)] = BAnd(@, 255 - 2^(k % 8))]

\* BigInt::set_bit
set_bit_reg(reg, n) ==
  set_word_at(reg, n \div (8 * WORD_BYTES),
              WordSetBit(word_at(reg, n \div (8 * WORD_BYTES)), n % (8 * WORD_BYTES)))

\* BigInt::clear_bit
clear_bit_reg(reg, n) ==
  IF n \div (8 * WORD_BYTES) < Len(reg)
  THEN set_word_at(reg, n \div (8 * WORD_BYTES),
                   WordClearBit(word_at(reg, n \div (8 * WORD_BYTES)), n % (8 * WORD_BYTES)))
  ELSE reg

\* BigInt::ct_cond_assign: word i becomes select(mask, other.word_at(i), word_at(i))
RECURSIVE CondAssignLoop(_, _, _, _, _)
CondAssignLoop(reg, predicate, other, i, r_words) ==
  IF i = r_words THEN reg
  ELSE CondAssignLoop(set_word_at(reg, i, IF predicate THEN word_at(other, i) ELSE word_at(reg, i)),
                      predicate, other, i + 1, r_words)
ct_cond_assign_reg_t_words(reg, predicate, other) ==
  CondAssignLoop(reg, predicate, other, 0, Len(reg))
ct_cond_assign_reg(reg, predicate, other) ==
  CondAssignLoop(reg, predicate, other, 0, IF Len(reg) >= Len(other) THEN Len(reg) ELSE Len(other))

\* BigInt::set_sign, reverse_sign
set_sign(reg, sign) == IF sign = "Negative" /\ calc_sig_words(reg) = 0 THEN "Positive" ELSE sign
reverse_sign(sign) == IF sign = "Positive" THEN "Negative" ELSE "Positive"

\* ---- calls that report an outcome
\* what a call gives back: its outcome and, when it returns, its value
Returned(value) == [ret |-> "ok", value |-> value]
Thrown(exception) == [ret |-> exception, value |-> <<>>]

\* make_uint64(i0, .., i7): a uint64_t as its eight bytes, most significant first
make_uint64(i0, i1, i2, i3, i4, i5, i6, i7) == <<i0, i1, i2, i3, i4, i5, i6, i7>>
\* piece >> shift, for a shift below 8
Shr64(w, shift) ==
  Tup([k \in 1..8 |-> (w[k] \div 2^shift)
                       + (IF k = 1 THEN 0 ELSE (w[k - 1] % 2^shift) * 2^(8 - shift))])
\* static_cast<uint32_t>: the low four bytes
LowUint32(w) == <<w[5], w[6], w[7], w[8]>>
MaskByteBits(length, k) ==
  IF length - 8 * (4 - k) >= 8 THEN 8
  ELSE IF length - 8 * (4 - k) <= 0 THEN 0 ELSE length - 8 * (4 - k)

SubstringMask_all_ones(length) == <<255, 255, 255, 255>>
\* 0xFFFFFFFF >> (32 - length), for length in 1..32
SubstringMask(length) == Tup([k \in 1..4 |-> 2^MaskByteBits(length, k) - 1])

\* BigInt::get_substring
get_substring_ret(reg, offset, length) ==
  IF length = 0 \/ length > 32
  THEN Thrown("Invalid_Argument")
  ELSE Returned(WAnd(LowUint32(Shr64(make_uint64(0, 0, 0,
                                                 byte_at(reg, (offset \div 8) + 4),
                                                 byte_at(reg, (offset \div 8) + 3),
                                                 byte_at(reg, (offset \div 8) + 2),
                                                 byte_at(reg, (offset \div 8) + 1),
                                                 byte_at(reg, offset \div 8)),
                                     offset % 8)),
                     SubstringMask(length)))

\* | on words
MpWordOr(a, b) == Tup([k \in 1..WORD_BYTES |-> BOr(a[k], b[k])])
\* clear_mem(out, n)
clear_mem(out) == Tup([w \in 1..Len(out) |-> ZeroMpWord])
\* CT::is_equal(i, idx) as a mask: all ones or all zeros
CtIsEqual(i, idx) == i = idx
\* CT::select(mask, x, y)
CtSelect(mask, x, y) == IF mask THEN x ELSE y

LookupEntry_assign(output, entry, mask) ==
  Tup([w \in 1..Len(output) |-> CtSelect(mask, word_at(entry, w - 1), ZeroMpWord)])
\* for(w = 0; w != words; ++w) output[w] |= CT::select(mask, vec[i].word_at(w), 0)
LookupEntry(output, entry, mask) ==
  Tup([w \in 1..Len(output) |->
         MpWordOr(output[w], CtSelect(mask, word_at(entry, w - 1), ZeroMpWord))])
\* the words that loop reads of entry i, in order
LookupEntryReads(i, words) == Tup([w \in 1..words |-> <<i, w - 1>>])

\* the loop over the entries of vec; BOTAN_ASSERT stops it at an entry
\* shorter than the output
RECURSIVE LookupLoop(_, _, _, _, _)
LookupLoop(output, vec, idx, i, reads) ==
  IF i = Len(vec) THEN [ret |-> "ok", value |-> <<>>, output |-> output, reads |-> reads]
  ELSE IF ~(Len(vec[i + 1]) >= Len(output))
  THEN [ret |-> "Internal_Error", value |-> <<>>, output |-> output, reads |-> reads]
  ELSE LookupLoop(LookupEntry(output, vec[i + 1], CtIsEqual(i, idx)), vec, idx, i + 1,
                  reads \o LookupEntryReads(i, Len(output)))

\* BigInt::const_time_lookup: the outcome, the output it leaves, what it read
const_time_lookup_ret(output, vec, idx) == LookupLoop(clear_mem(output), vec, idx, 0, <<>>)

\* a < b on words
MpWordLess(a, b) ==
  \E k \in 1..WORD_BYTES : a[k] < b[k] /\ \A j \in 1..(k - 1) : a[j] = b[j]
\* the most significant word in which x and y differ
TopDifference(x, y, n) ==
  CHOOSE i \in 0..(n - 1) :
    word_at(x, i) # word_at(y, i) /\ \A h \in (i + 1)..(n - 1) : word_at(x, h) = word_at(y, h)
\* bigint_cmp(x, x_size, y, y_size): -1, 0 or 1 as x < y, x = y or x > y
MagnitudeCmp(x, y, n) ==
  IF \A i \in 0..(n - 1) : word_at(x, i) = word_at(y, i) THEN 0
  ELSE IF MpWordLess(word_at(x, TopDifference(x, y, n)), word_at(y, TopDifference(x, y, n)))
  THEN -1 ELSE 1
bigint_cmp(x, x_size, y, y_size) ==
  MagnitudeCmp(SubSeq(x, 1, x_size), SubSeq(y, 1, y_size), IF x_size >= y_size THEN x_size ELSE y_size)
\* bigint_ct_is_lt(x, x_size, y, y_size, lt_or_equal)
bigint_ct_is_lt(x, x_size, y, y_size, lt_or_equal) ==
  \/ bigint_cmp(x, x_size, y, y_size) < 0
  \/ lt_or_equal /\ bigint_cmp(x, x_size, y, y_size) = 0

\* BigInt::cmp(other, check_signs); x and other are records of reg and sign
cmp_ret(x, other, check_signs) ==
  IF check_signs /\ other.sign = "Positive" /\ x.sign = "Negative" THEN -1
  ELSE IF check_signs /\ other.sign = "Negative" /\ x.sign = "Positive" THEN 1
  ELSE IF check_signs /\ other.sign = "Negative" /\ x.sign = "Negative"
  THEN 0 - bigint_cmp(x.reg, calc_sig_words(x.reg), other.reg, calc_sig_words(other.reg))
  ELSE bigint_cmp(x.reg, calc_sig_words(x.reg), other.reg, calc_sig_words(other.reg))

\* BigInt::is_less_than(other)
is_less_than_ret(x, other) ==
  IF x.sign = "Negative" /\ other.sign = "Positive" THEN TRUE
  ELSE IF x.sign = "Positive" /\ other.sign = "Negative" THEN FALSE
  ELSE IF other.sign = "Negative" /\ x.sign = "Negative"
  THEN ~bigint_ct_is_lt(other.reg, calc_sig_words(other.reg), x.reg, calc_sig_words(x.reg), TRUE)
  ELSE bigint_ct_is_lt(x.reg, calc_sig_words(x.reg), other.reg, calc_sig_words(other.reg), FALSE)

\* BigInt::encode_words: the outcome and the words it leaves in out
encode_words_ret(reg, out) ==
  IF calc_sig_words(reg) > Len(out)
  THEN [ret |-> "Encoding_Error", value |-> <<>>, out |-> out]
  ELSE [ret |-> "ok", value |-> <<>>,
        \* clear_mem(out, size); copy_mem(out, data(), words)
        out |-> Tup([w \in 1..Len(out) |-> IF w <= calc_sig_words(reg) THEN reg[w] ELSE ZeroMpWord])]

\* BigInt::to_u32bit: out = (out << 8) | byte_at(3 - i), for i = 0..3
to_u32bit_ret(reg, sign) ==
  IF sign = "Negative" THEN Thrown("Encoding_Error")
  ELSE IF bits(reg) > 32 THEN Thrown("Encoding_Error")
  ELSE Returned(<<byte_at(reg, 3), byte_at(reg, 2), byte_at(reg, 1), byte_at(reg, 0)>>)

\* the low n words of reg as bytes, least significant first, and back
WordsLeBytes(reg, n) == Tup([k \in 1..(WORD_BYTES * n) |-> byte_at(reg, k - 1)])
LeBytesWords(b) ==
  Tup([w \in 1..(Len(b) \div WORD_BYTES) |->
         Tup([k \in 1..WORD_BYTES |-> b[WORD_BYTES * w - k + 1]])])

\* x - y with borrow, byte by byte; y is read as padded with zeros
RECURSIVE SubLoop(_, _, _, _, _)
SubLoop(x, y, i, borrow, z) ==
  IF i > Len(x) THEN [z |-> LeBytesWords(z), borrow |-> borrow]
  ELSE SubLoop(x, y, i + 1,
               IF x[i] - (IF i <= Len(y) THEN y[i] ELSE 0) - borrow < 0 THEN 1 ELSE 0,
               z \o <<(256 + x[i] - (IF i <= Len(y) THEN y[i] ELSE 0) - borrow) % 256>>)
\* bigint_sub3(z, x, x_size, y, y_size): z = x - y over x_size words, and the borrow out
bigint_sub3(x, x_size, y, y_size) ==
  SubLoop(WordsLeBytes(x, x_size), WordsLeBytes(y, y_size), 1, 0, <<>>)

\* the words of ws after bigint_sub3 wrote its first p_words + 1
ReduceWs(ws, z) == z \o SubSeq(ws, Len(z) + 1, Len(ws))
\* for(;;) { borrow = bigint_sub3(ws, data(), p_words + 1, p, p_words);
\*           if(borrow) break; swap_reg(ws); }
RECURSIVE ReduceLoop(_, _, _, _)
ReduceStep(reg, ws, p, sub) ==
  IF sub.borrow # 0
  THEN [ret |-> "ok", value |-> <<>>, reg |-> reg, ws |-> ReduceWs(ws, sub.z)]
  ELSE IF sub.z = SubSeq(reg, 1, Len(sub.z))
  THEN \* the difference is the minuend: every later pass repeats this one
       [ret |-> "never_returns", value |-> <<>>, reg |-> reg, ws |-> ReduceWs(ws, sub.z)]
  ELSE ReduceLoop(ReduceWs(ws, sub.z), reg, p, calc_sig_words(p))
ReduceLoop(reg, ws, p, p_words) ==
  ReduceStep(reg, ws, p, bigint_sub3(reg, p_words + 1, p, p_words))

\* ws.resize(n) when it is shorter
WsResized(ws, n) == IF Len(ws) < n THEN ws \o Tup([i \in 1..(n - Len(ws)) |-> ZeroMpWord]) ELSE ws

\* BigInt::reduce_below: the outcome, the words of the receiver and of ws
reduce_below_ret(reg, p, ws) ==
  IF p.sign = "Negative"
  THEN [ret |-> "Invalid_Argument", value |-> <<>>, reg |-> reg, ws |-> ws]
  ELSE ReduceLoop(IF Len(reg) < calc_sig_words(p.reg) + 1
                  THEN grow_to(reg, calc_sig_words(p.reg) + 1) ELSE reg,
                  clear_mem(WsResized(ws, calc_sig_words(p.reg) + 1)),
                  p.reg, calc_sig_words(p.reg))

\* ---- the constructors
\* a value below 2^31 as a word
NatMpWord(v) == Tup([k \in 1..WORD_BYTES |-> IF k <= 4 THEN 0 ELSE (v \div (256^(WORD_BYTES - k))) % 256])

\* BigInt(const word words[], size_t length)
BigInt_words(words) == [reg |-> words, sign |-> "Positive"]
\* BigInt(uint64_t n)
BigInt_u64(n) == [reg |-> IF n > 0 THEN set_word_at(<<>>, 0, NatMpWord(n)) ELSE <<>>, sign |-> "Positive"]
\* BigInt(Sign s, size_t size): set_size rounds up to the next multiple of 8 words
BigInt_sign_size(s, size) ==
  [reg |-> Tup([i \in 1..(size + (8 - (size % 8))) |-> ZeroMpWord]), sign |-> s]
\* BigInt(const uint8_t input[], size_t length): binary_decode, after clear()
BigInt_bytes(buf) == [reg |-> binary_decode_reg(buf), sign |-> "Positive"]

\* BigInt::decode of digits in a base: the value, digit by digit
Digits == <<"0", "1", "2", "3", "4", "5", "6", "7", "8", "9", "a", "b", "c", "d", "e", "f">>
DigitValue(c) == CHOOSE v \in 0..15 : Digits[v + 1] = c
RECURSIVE ParseDigits(_, _, _)
ParseDigits(str, base, acc) ==
  IF str = <<>> THEN acc ELSE ParseDigits(Tail(str), base, acc * base + DigitValue(Head(str)))

\* BigInt(const std::string& str); str is the sequence of its characters
StrNegative(str) == Len(str) > 0 /\ str[1] = "-"
StrSignMarkers(str) == IF StrNegative(str) THEN 1 ELSE 0
StrHex(str) ==
  /\ Len(str) > StrSignMarkers(str) + 2
  /\ str[StrSignMarkers(str) + 1] = "0"
  /\ str[StrSignMarkers(str) + 2] = "x"
StrMarkers(str) == StrSignMarkers(str) + (IF StrHex(str) THEN 2 ELSE 0)
BigIntSigned(b, negative) ==
  [reg |-> b.reg, sign |-> set_sign(b.reg, IF negative THEN "Negative" ELSE "Positive")]
BigInt_string(str) ==
  BigIntSigned(BigInt_u64(ParseDigits(SubSeq(str, StrMarkers(str) + 1, Len(str)),
                                      IF StrHex(str) THEN 16 ELSE 10, 0)),
               StrNegative(str))

\* BigInt::get_bit: (word_at(n / 64) >> (n % 64)) & 1
reg_get_bit(reg, n) ==
  Bit(word_at(reg, n \div (8 * WORD_BYTES))[WORD_BYTES - ((n % (8 * WORD_BYTES)) \div 8)], n % 8)
\* the byte made of the eight bits from bit n up
ByteFromBit(reg, n) ==
  reg_get_bit(reg, n) + 2 * reg_get_bit(reg, n + 1) + 4 * reg_get_bit(reg, n + 2)
  + 8 * reg_get_bit(reg, n + 3) + 16 * reg_get_bit(reg, n + 4) + 32 * reg_get_bit(reg, n + 5)
  + 64 * reg_get_bit(reg, n + 6) + 128 * reg_get_bit(reg, n + 7)
\* x >>= shift: the words keep their number, the magnitude moves down by shift bits
operator_shr(reg, shift) ==
  Tup([w \in 1..Len(reg) |->
         Tup([k \in 1..WORD_BYTES |->
                ByteFromBit(reg, 8 * WORD_BYTES * (w - 1) + 8 * (WORD_BYTES - k) + shift)])])

max_bytes_floor(length, max_bits) ==
  IF length <= max_bits \div 8 THEN length ELSE max_bits \div 8
\* std::min(length, (max_bits + 7) / 8)
max_bytes(length, max_bits) ==
  IF length <= (max_bits + 7) \div 8 THEN length ELSE (max_bits + 7) \div 8
\* if(b > max_bits) *this >>= (b - max_bits)
ShiftToMaxBits(reg, max_bits) ==
  IF bits(reg) > max_bits THEN operator_shr(reg, bits(reg) - max_bits) ELSE reg
\* BigInt(const uint8_t buf[], size_t length, size_t max_bits)
BigInt_bytes_max_bits(buf, max_bits) ==
  [reg |-> ShiftToMaxBits(binary_decode_reg(SubSeq(buf, 1, max_bytes(Len(buf), max_bits))), max_bits),
   sign |-> "Positive"]

\* ---- the values of the model
\* Most bytes after the leading zeros of a decoded byte string
MaxBody == 9
\* Most leading zero bytes of a decoded byte string
MaxLeadingZeros == 2

ByteStringBody(first, k) ==
  IF k = 0 THEN <<>> ELSE <<first>> \o Tup([i \in 1..(k - 1) |-> (i * 37) % 256])
ByteStrings ==
  {Zeros(z) \o ByteStringBody(first, k) :
     z \in 0..MaxLeadingZeros, first \in {1, 128, 255}, k \in 0..MaxBody}
DecodeInputs == {b \in ByteStrings : Len(b) \in {0, 1, 2, MaxBody + MaxLeadingZeros}}
BitNumbers == {0, 8 * WORD_BYTES}
SubstringOffsets == {0, 3, 29, 60, 500}
MaxBitsValues == {0, 7, 9, 70, 200}
\* the BigInts a receiver is compared with: 0, 1, 7, 2^64 + .., -1, -7, -(2^64 + ..)
Comparands ==
  {BigInt_u64(0), BigInt_u64(1), BigInt_u64(7), BigInt_bytes(ByteStringBody(1, 9)),
   BigInt_string(<<"-", "1">>), BigInt_string(<<"-", "7">>),
   BigIntSigned(BigInt_bytes(ByteStringBody(1, 9)), TRUE)}
\* reduce_below is called on receivers at most this many bits longer than the
\* modulus, which bounds the subtractions of its loop
ReduceSlackBits == 3
\* moduli for reduce_below: 0, 7, 255, 2^64 and -7
Moduli ==
  {BigInt_u64(0), BigInt_u64(7), BigInt_u64(255), BigInt_bytes(<<1>> \o Zeros(8)),
   [reg |-> BigInt_u64(7).reg, sign |-> "Negative"]}
\* word buffers a caller passes, with what they held before the call
WordBuffers == {<<>>, <<NatMpWord(9)>>, <<NatMpWord(9), NatMpWord(10)>>}
\* tables of BigInts for const_time_lookup; the last three have an entry of one
\* word or none
FullEntries ==
  <<BigInt_u64(7).reg, binary_decode_reg(<<1>> \o Zeros(8)),
    binary_decode_reg(ByteStringBody(255, 9))>>
LookupTables ==
  {<<>>, FullEntries,
   <<FullEntries[1], <<NatMpWord(5)>>, FullEntries[3]>>,
   <<Zeros(0), FullEntries[1]>>,
   <<FullEntries[2], FullEntries[3], <<NatMpWord(3)>> >>}
SubstringLengths == {0, 1, 8, 31, 32, 33}
Strings == { <<"0">>, <<"-", "0">>, <<"7">>, <<"-", "7">>, <<"0", "x", "f", "f">>,
             <<"-", "0", "x", "1", "0">>, <<"-", "0", "x", "0">> }
OtherBigInts == {<<>>, Zeros(0) \o <<ZeroMpWord>>, BigInt_u64(7).reg, binary_decode_reg(Zeros(1) \o <<1>> \o Zeros(8))}

BigOp(name, decoded, in, out) == [name |-> name, decoded |-> decoded, in |-> in, out |-> out]
Constructed(b, name, decoded, in) == [reg |-> b.reg, sign |-> b.sign, op |-> BigOp(name, decoded, in, <<>>)]

\* the objects the constructors give
NewBigInts ==
  {Constructed(BigInt_words(w), "BigInt_words", FALSE, <<>>) : w \in OtherBigInts}
  \cup {Constructed(BigInt_u64(n), "BigInt_u64", FALSE, <<>>) : n \in {0, 1, 255}}
  \cup {Constructed(BigInt_sign_size(sg, size), "BigInt_sign_size", FALSE, <<>>) :
          sg \in {"Positive", "Negative"}, size \in {0, 1}}
  \cup {Constructed(BigInt_string(str), "BigInt_string", FALSE, <<>>) : str \in Strings}
  \cup {Constructed(BigInt_bytes(buf), "BigInt_bytes", TRUE, buf) : buf \in ByteStrings}

\* a call with arguments: its outcome, its arguments, what it read, and the
\* receiver and the argument objects as they were when it was made
BigCall(name, res, in, reads, other, ws) ==
  [name |-> name, ret |-> res.ret, value |-> res.value, in |-> in, reads |-> reads,
   old_reg |-> m_reg, old_sign |-> m_signedness, old_other |-> other, old_ws |-> ws]
NoCall ==
  [name |-> "none", ret |-> "ok", value |-> <<>>, in |-> <<>>, reads |-> <<>>,
   old_reg |-> <<>>, old_sign |-> "Positive", old_other |-> <<>>, old_ws |-> <<>>]

BigIntArgsIdle ==
  /\ big_other = <<>>
  /\ big_ws = <<>>
  /\ big_call = NoCall

BigIntIdle ==
  /\ m_reg = <<>>
  /\ m_signedness = "Positive"
  /\ big_op = BigOp("BigInt", FALSE, <<>>, <<>>)
  /\ BigIntArgsIdle

BigIntNew ==
  /\ \E b \in NewBigInts : m_reg = b.reg /\ m_signedness = b.sign /\ big_op = b.op
  /\ BigIntArgsIdle

\* the constructions BigInt(buf, length, max_bits) of the model, each with what it makes
MaxBitsConstructions ==
  {[in |-> <<buf, max_bits>>, b |-> BigInt_bytes_max_bits(buf, max_bits)] :
     buf \in DecodeInputs, max_bits \in MaxBitsValues}
\* the calls const_time_lookup(output, vec, idx) of the model, each with what it does
LookupCalls ==
  UNION {{[output |-> output, in |-> <<vec, idx>>, r |-> const_time_lookup_ret(output, vec, idx)] :
            idx \in 0..Len(vec), output \in WordBuffers} : vec \in LookupTables}

\* the receivers of the calls with arguments: of the byte strings, those that
\* binary_decode takes
BigIntCallsNew ==
  /\ \E b \in {c \in NewBigInts : c.op.name = "BigInt_bytes" => c.op.in \in DecodeInputs} :
       m_reg = b.reg /\ m_signedness = b.sign /\ big_op = b.op
  /\ BigIntArgsIdle

\* x = -x
operator_minus ==
  /\ m_signedness' = set_sign(m_reg, reverse_sign(m_signedness))
  /\ big_op' = BigOp("operator_minus", FALSE, <<>>, <<>>)
  /\ UNCHANGED m_reg
  /\ UNCHANGED nonBigVars

\* x = x.abs()
abs ==
  /\ m_signedness' = set_sign(m_reg, "Positive")
  /\ big_op' = BigOp("abs", FALSE, <<>>, <<>>)
  /\ UNCHANGED m_reg
  /\ UNCHANGED nonBigVars

set_bit ==
  /\ \E n \in BitNumbers : m_reg' = set_bit_reg(m_reg, n)
  /\ big_op' = BigOp("set_bit", FALSE, <<>>, <<>>)
  /\ UNCHANGED m_signedness
  /\ UNCHANGED nonBigVars

clear_bit ==
  /\ \E n \in BitNumbers : m_reg' = clear_bit_reg(m_reg, n)
  /\ big_op' = BigOp("clear_bit", FALSE, <<>>, <<>>)
  /\ UNCHANGED m_signedness
  /\ UNCHANGED nonBigVars

binary_decode ==
  /\ \E buf \in DecodeInputs :
       /\ m_reg' = binary_decode_reg(buf)
       /\ big_op' = BigOp("binary_decode", TRUE, buf, <<>>)
  /\ m_signedness' = "Positive"     \* clear()
  /\ UNCHANGED nonBigVars

binary_encode ==
  /\ big_op' = BigOp("binary_encode", big_op.decoded, big_op.in, binary_encode_out(m_reg))
  /\ UNCHANGED <<m_reg, m_signedness>>
  /\ UNCHANGED nonBigVars

\* x.get_substring(offset, length)
get_substring ==
  /\ \E offset \in SubstringOffsets, length \in SubstringLengths :
       big_call' = BigCall("get_substring", get_substring_ret(m_reg, offset, length),
                           <<offset, length>>, <<>>, <<>>, <<>>)
  /\ big_op' = BigOp("get_substring", FALSE, <<>>, <<>>)
  /\ big_other' = <<>> /\ big_ws' = <<>>
  /\ UNCHANGED <<m_reg, m_signedness>>
  /\ UNCHANGED nonBigCallVars

\* x = BigInt(buf, length, max_bits)
BigInt_max_bits ==
  /\ \E c \in MaxBitsConstructions :
       /\ m_reg' = c.b.reg
       /\ m_signedness' = c.b.sign
       /\ big_call' = BigCall("BigInt_max_bits", Returned(<<>>), c.in, <<>>, <<>>, <<>>)
  /\ big_op' = BigOp("BigInt_max_bits", FALSE, <<>>, <<>>)
  /\ big_other' = <<>> /\ big_ws' = <<>>
  /\ UNCHANGED nonBigCallVars

\* x.cmp(other, check_signs)
cmp ==
  /\ \E other \in Comparands, check_signs \in BOOLEAN :
       /\ big_other' = other.reg
       /\ big_call' = BigCall("cmp",
                              Returned(cmp_ret([reg |-> m_reg, sign |-> m_signedness], other, check_signs)),
                              <<other.sign, check_signs>>, <<>>, other.reg, <<>>)
  /\ big_op' = BigOp("cmp", FALSE, <<>>, <<>>)
  /\ big_ws' = <<>>
  /\ UNCHANGED <<m_reg, m_signedness>>
  /\ UNCHANGED nonBigCallVars

\* x.is_less_than(other)
is_less_than ==
  /\ \E other \in Comparands :
       /\ big_other' = other.reg
       /\ big_call' = BigCall("is_less_than",
                              Returned(is_less_than_ret([reg |-> m_reg, sign |-> m_signedness], other)),
                              <<other.sign>>, <<>>, other.reg, <<>>)
  /\ big_op' = BigOp("is_less_than", FALSE, <<>>, <<>>)
  /\ big_ws' = <<>>
  /\ UNCHANGED <<m_reg, m_signedness>>
  /\ UNCHANGED nonBigCallVars

\* x.encode_words(out, size)
encode_words ==
  /\ \E out \in WordBuffers :
       \E r \in {encode_words_ret(m_reg, out)} :
         /\ big_ws' = r.out
         /\ big_call' = BigCall("encode_words", r, <<>>, <<>>, <<>>, out)
  /\ big_op' = BigOp("encode_words", FALSE, <<>>, <<>>)
  /\ big_other' = <<>>
  /\ UNCHANGED <<m_reg, m_signedness>>
  /\ UNCHANGED nonBigCallVars

\* x.to_u32bit()
to_u32bit ==
  /\ big_call' = BigCall("to_u32bit", to_u32bit_ret(m_reg, m_signedness), <<>>, <<>>, <<>>, <<>>)
  /\ big_op' = BigOp("to_u32bit", FALSE, <<>>, <<>>)
  /\ big_other' = <<>> /\ big_ws' = <<>>
  /\ UNCHANGED <<m_reg, m_signedness>>
  /\ UNCHANGED nonBigCallVars

\* x.reduce_below(p, ws)
reduce_below ==
  /\ \E p \in Moduli, ws \in WordBuffers :
       /\ p.sign = "Negative" \/ bits(m_reg) <= bits(p.reg) + ReduceSlackBits
       /\ \E r \in {reduce_below_ret(m_reg, p, ws)} :
            /\ m_reg' = r.reg
            /\ big_ws' = r.ws
            /\ big_other' = p.reg
            /\ big_call' = BigCall("reduce_below", r, <<p.sign>>, <<>>, p.reg, ws)
  /\ big_op' = BigOp("reduce_below", FALSE, <<>>, <<>>)
  /\ UNCHANGED m_signedness
  /\ UNCHANGED nonBigCallVars

\* BigInt::const_time_lookup(output, vec, idx)
const_time_lookup ==
  /\ \E c \in LookupCalls :
       /\ big_ws' = c.r.output
       /\ big_call' = BigCall("const_time_lookup", c.r, c.in, c.r.reads, <<>>, c.output)
  /\ big_op' = BigOp("const_time_lookup", FALSE, <<>>, <<>>)
  /\ big_other' = <<>>
  /\ UNCHANGED <<m_reg, m_signedness>>
  /\ UNCHANGED nonBigCallVars

\* x.ct_cond_assign(predicate, other): it writes the words of x only; other is
\* read through size() and word_at()
ct_cond_assign ==
  /\ \E predicate \in BOOLEAN, other \in OtherBigInts :
       /\ m_reg' = ct_cond_assign_reg(m_reg, predicate, other)
       /\ big_other' = other
       /\ big_call' = BigCall("ct_cond_assign", Returned(<<>>), <<predicate>>, <<>>, other, <<>>)
  /\ big_op' = BigOp("ct_cond_assign", FALSE, <<>>, <<>>)
  /\ big_ws' = <<>>
  /\ UNCHANGED m_signedness
  /\ UNCHANGED nonBigCallVars

(***************************************************************************)
(* Ed448 on a scaled-down curve.  The field Gf448Elem, the scalars          *)
(* Scalar448 and the SHAKE-256 XOF are not part of the modelled sources;    *)
(* they are modelled on the Edwards curve x^2 + y^2 = 1 + d x^2 y^2 with    *)
(* d = -39081 over the prime field of P elements, whose group has 4*L       *)
(* points, L prime.  A field element takes ED448_LEN - 1 bytes and a point  *)
(* or scalar encoding ED448_LEN bytes, little-endian, as in RFC 8032.       *)
(***************************************************************************)
\* the field prime, P = 3 mod 4
P == 39103
\* the prime order of the base point
L == 9697
\* the bits of a scalar below L
ScalarBits == 14
\* the bytes of an encoded point or scalar
ED448_LEN == 3
MINUS_D == 39081

\* ---- Gf448Elem
GfAdd(a, b) == (a + b) % P
GfSub(a, b) == (a + P - b) % P
GfNeg(a) == (P - a) % P
GfMul(a, b) == (a * b) % P
square(a) == (a * a) % P
GfTimesSquare(a, h) == (a * ((h * h) % P)) % P
RECURSIVE GfPow(_, _)
GfPow(a, e) ==
  IF e = 0 THEN 1
  ELSE IF e % 2 = 0 THEN GfTimesSquare(1, GfPow(a, e \div 2))
  ELSE GfTimesSquare(a, GfPow(a, e \div 2))
\* the (p-3)/4 power
GfRoot(a) == GfPow(a, (P - 3) \div 4)
GfInverse(a) == GfPow(a, P - 2)
is_odd(a) == a % 2 = 1

\* little-endian bytes
RECURSIVE LeValue(_, _, _)
LeValue(b, i, modulus) ==
  IF i > Len(b) THEN 0 ELSE (b[i] + 256 * LeValue(b, i + 1, modulus)) % modulus
LeBytes(v, n) == Tup([i \in 1..n |-> (v \div (256^(i - 1))) % 256])
bytes_are_canonical_representation(y_data) ==
  y_data[1] + 256 * y_data[2] < P
Gf448Elem(y_data) == LeValue(y_data, 1, P)

\* ---- Scalar448
\* from little-endian bytes, reduced modulo L
Scalar448(b) == LeValue(b, 1, L)
bytes_are_reduced(b) == b[1] + 256 * b[2] + 65536 * b[3] < L
get_bit(sc, i) == (sc \div (2^i)) % 2 = 1
ScalarAdd(a, b) == (a + b) % L
ScalarMul(a, b) == (a * b) % L

\* ---- SHAKE-256 XOF: absorbs bytes, then gives output bytes
\* the bytes absorbed per block
ShakeRate == 16
RECURSIVE ShakeAbsorbBlock(_, _, _, _, _)
ShakeAbsorbBlock(input, i, last, h1, h2) ==
  IF i > last \/ h1 < 0 \/ h2 < 0 THEN <<h1, h2>>
  ELSE ShakeAbsorbBlock(input, i + 1, last, (h1 * 251 + input[i] + 1) % 32749,
                        (h2 * 241 + 3 * input[i] + 7) % 32719)
RECURSIVE ShakeAbsorb(_, _, _)
ShakeAbsorb(input, i, h) ==
  IF i > Len(input) \/ h[1] < 0 THEN h
  ELSE ShakeAbsorb(input, i + ShakeRate,
                   ShakeAbsorbBlock(input, i,
                                    IF i + ShakeRate - 1 < Len(input) THEN i + ShakeRate - 1 ELSE Len(input),
                                    h[1], h[2]))
ShakeSqueeze(h, n) ==
  Tup([j \in 1..n |-> (h[1] * (2 * j + 1) + h[2] * (j * j + 3) + ((h[1] * h[2]) \div 256)) % 256])
SHAKE_256_XOF(input, n) == ShakeSqueeze(ShakeAbsorb(input, 1, <<1, 2>>), n)

\* ---- ed448_internal.cpp
dom4_arg_check_up_to_256(y) == Len(y) <= 256
\* BOTAN_ARG_CHECK(y.size() < 256, ..)
dom4_arg_check(y) == Len(y) < 256

\* "SigEd448" || octet(x) || octet(OLEN(y)) || y
dom4(x, y) ==
  <<83, 105, 103, 69, 100, 52, 52, 56>> \o <<IF x THEN 1 ELSE 0>> \o <<Len(y) % 256>> \o y

shake_without_xs(f, context, xs) == SHAKE_256_XOF(dom4(f, context), 2 * ED448_LEN)
\* shake(f, context, xs...): 2 * ED448_LEN bytes of SHAKE256(dom4(f, context) || xs...)
shake(f, context, xs) == SHAKE_256_XOF(dom4(f, context) \o xs, 2 * ED448_LEN)

\* raw_s[0] &= 0xFC; raw_s[55] |= 0x80; raw_s[56] = 0
PruneBuffer(raw_s) ==
  [i \in 1..ED448_LEN |->
     IF i = ED448_LEN THEN 0
     ELSE IF i = ED448_LEN - 1 THEN BOr(IF i = 1 THEN BAnd(raw_s[i], 252) ELSE raw_s[i], 128)
     ELSE IF i = 1 THEN BAnd(raw_s[i], 252)
     ELSE raw_s[i]]
\* the secret scalar, of the first ED448_LEN output bytes
scalar_from_xof(raw_s) == Scalar448(Tup(PruneBuffer(raw_s)))

Ed448Point(x, y, z) == [m_x |-> x, m_y |-> y, m_z |-> z]
DecodingError == [ret |-> "Decoding_Error", pt |-> Ed448Point(0, 0, 0)]

\* the affine coordinates x() and y()
PointX(pt) == GfMul(pt.m_x, GfInverse(pt.m_z))
PointY(pt) == GfMul(pt.m_y, GfInverse(pt.m_z))

\* decode, step 3 and 4: the root exists, and its parity is the one encoded
DecodeRoot_any_parity(y, u, v, maybe_x, x_distinguisher) ==
  IF GfMul(v, square(maybe_x)) # u THEN DecodingError
  ELSE [ret |-> "ok",
        pt |-> Ed448Point(IF is_odd(maybe_x) = x_distinguisher THEN maybe_x ELSE GfNeg(maybe_x), y, 1)]
DecodeRoot(y, u, v, maybe_x, x_distinguisher) ==
  IF GfMul(v, square(maybe_x)) # u THEN DecodingError
  ELSE IF maybe_x = 0 /\ x_distinguisher THEN DecodingError
  ELSE [ret |-> "ok",
        pt |-> Ed448Point(IF is_odd(maybe_x) = x_distinguisher THEN maybe_x ELSE GfNeg(maybe_x), y, 1)]

\* decode, step 2: maybe_x = u^3 v (u^5 v^3)^((p-3)/4)
DecodeUV(y, u, v, x_distinguisher) ==
  DecodeRoot(y, u, v,
             GfMul(GfMul(GfMul(u, square(u)), v),
                   GfRoot(GfMul(GfMul(GfMul(square(square(u)), u), square(v)), v))),
             x_distinguisher)

\* decode, step 2: u = y^2 - 1, v = d y^2 - 1
DecodeY(y, x_distinguisher) ==
  DecodeUV(y, GfSub(square(y), 1), GfSub(GfMul(GfNeg(MINUS_D % P), square(y)), 1), x_distinguisher)

\* Ed448Point::decode
Ed448Point_decode(enc) ==
  IF BAnd(enc[ED448_LEN], 127) # 0 THEN DecodingError
  ELSE IF ~bytes_are_canonical_representation(SubSeq(enc, 1, ED448_LEN - 1)) THEN DecodingError
  ELSE DecodeY(Gf448Elem(SubSeq(enc, 1, ED448_LEN - 1)), enc[ED448_LEN] # 0)

\* Ed448Point::base_point: the point of order L of the curve
base_point == Ed448Point(35090, 30259, 1)

\* Ed448Point::encode
encode(pt) == LeBytes(PointY(pt), ED448_LEN - 1) \o <<IF is_odd(PointX(pt)) THEN 128 ELSE 0>>

\* operator+, from A, C, D, H, F = B - E and G = B + E
PointAddFG(A, C, D, H, F, G) ==
  Ed448Point(GfMul(GfMul(A, F), GfSub(GfSub(H, C), D)),
             GfMul(GfMul(A, G), GfSub(D, C)),
             GfMul(F, G))
PointAddBE(A, C, D, H, B, E) == PointAddFG(A, C, D, H, GfSub(B, E), GfAdd(B, E))
PointAddACD(A, C, D, H) ==
  PointAddBE(A, C, D, H, square(A), GfMul(GfMul(GfNeg(MINUS_D % P), C), D))
\* Ed448Point::operator+
PointAdd(p1, p2) ==
  PointAddACD(GfMul(p1.m_z, p2.m_z), GfMul(p1.m_x, p2.m_x), GfMul(p1.m_y, p2.m_y),
              GfMul(GfAdd(p1.m_x, p1.m_y), GfAdd(p2.m_x, p2.m_y)))

\* double_point, from B, C, D, E = C + D and J = E - (H + H)
DoubleEJ(B, C, D, E, J) ==
  Ed448Point(GfMul(GfSub(B, E), J), GfMul(E, GfSub(C, D)), GfMul(E, J))
DoubleBCDH(B, C, D, H) == DoubleEJ(B, C, D, GfAdd(C, D), GfSub(GfAdd(C, D), GfAdd(H, H)))
\* Ed448Point::double_point
double_point(pt) ==
  DoubleBCDH(square(GfAdd(pt.m_x, pt.m_y)), square(pt.m_x), square(pt.m_y), square(pt.m_z))

\* res = res.double_point(); res.ct_conditional_assign(s.get_bit(i), res + *this)
ScalarMulStep(pt, bit, res) == IF bit THEN PointAdd(res, pt) ELSE res
RECURSIVE ScalarMulLoop(_, _, _, _)
ScalarMulLoop(pt, sc, i, res) ==
  IF i < 0 \/ res.m_z < 0 THEN res
  ELSE ScalarMulLoop(pt, sc, i - 1, ScalarMulStep(pt, get_bit(sc, i), double_point(res)))
\* Ed448Point::scalar_mul
scalar_mul(pt, sc) == ScalarMulLoop(pt, sc, ScalarBits - 1, Ed448Point(0, 1, 1))

\* Ed448Point::operator==
PointEq(p1, p2) == PointX(p1) = PointX(p2) /\ PointY(p1) = PointY(p2)

create_pk_from_sk(sk) ==
  encode(scalar_mul(base_point, scalar_from_xof(SHAKE_256_XOF(sk, ED448_LEN))))

\* the second ED448_LEN output bytes of the XOF that absorbed sk
SignPrefix(sk) == SubSeq(SHAKE_256_XOF(sk, 2 * ED448_LEN), ED448_LEN + 1, 2 * ED448_LEN)

SignBigS_without_secret(r, k, sc) == ScalarAdd(r, k)
\* S = (r + k * s) mod L
SignBigS(r, k, sc) == ScalarAdd(r, ScalarMul(k, sc))

\* sign_message, steps 4 to 6
SignBigR(sc, r, big_r, pk, pgflag, context, msg) ==
  [ret |-> "ok",
   sig |-> big_r \o LeBytes(SignBigS(r, Scalar448(shake(pgflag, context, big_r \o pk \o msg)), sc),
                            ED448_LEN)]
\* sign_message, steps 2 and 3
SignPrefixed(sc, prefix, pk, pgflag, context, msg) ==
  SignBigR(sc, Scalar448(shake(pgflag, context, prefix \o msg)),
           encode(scalar_mul(base_point, Scalar448(shake(pgflag, context, prefix \o msg)))),
           pk, pgflag, context, msg)
sign_message(sk, pk, pgflag, context, msg) ==
  IF ~dom4_arg_check(context) THEN [ret |-> "Invalid_Argument", sig |-> <<>>]
  ELSE SignPrefixed(scalar_from_xof(SHAKE_256_XOF(sk, ED448_LEN)), SignPrefix(sk),
                    pk, pgflag, context, msg)

\* verify_signature, step 3: [S]B == R + [k]A'
VerifyEquation(big_s, k, big_r, a) ==
  IF a.ret # "ok" THEN "Decoding_Error"
  ELSE IF PointEq(scalar_mul(base_point, big_s), PointAdd(big_r, scalar_mul(a.pt, k)))
  THEN "true" ELSE "false"

\* verify_signature, step 2
VerifyK(pk, phflag, context, big_r_bytes, msg) ==
  Scalar448(shake(phflag, context, big_r_bytes \o pk \o msg))

\* verify_signature, step 1, with R decoded
VerifyDecoded(pk, phflag, context, big_r_bytes, big_s_bytes, msg, big_r) ==
  IF big_r.ret # "ok" THEN "Decoding_Error"
  ELSE IF ~bytes_are_reduced(big_s_bytes) THEN "Decoding_Error"
  ELSE IF ~dom4_arg_check(context) THEN "Invalid_Argument"
  ELSE VerifyEquation(Scalar448(big_s_bytes), VerifyK(pk, phflag, context, big_r_bytes, msg),
                      big_r.pt, Ed448Point_decode(pk))
VerifySplit(pk, phflag, context, big_r_bytes, big_s_bytes, msg) ==
  VerifyDecoded(pk, phflag, context, big_r_bytes, big_s_bytes, msg, Ed448Point_decode(big_r_bytes))
verify_signature(pk, phflag, context, sig, msg) ==
  IF Len(sig) # 2 * ED448_LEN THEN "Decoding_Error"
  ELSE VerifySplit(pk, phflag, context, SubSeq(sig, 1, ED448_LEN),
                   SubSeq(sig, ED448_LEN + 1, 2 * ED448_LEN), msg)

\* ---- the values of the model
\* Longest message signed
MaxMsgLen == 2
\* Number of private seeds
NumSeeds == 3

Ed448Seeds == {Tup([i \in 1..ED448_LEN |-> (n * 71 + i * 29) % 256]) : n \in 1..NumSeeds}
Ed448Message(n) == Tup([i \in 1..n |-> (i * 89 + 8) % 256])
Ed448Messages == {Ed448Message(n) : n \in 0..MaxMsgLen}
Ed448Context(n) == Tup([i \in 1..n |-> (7 * i) % 256])
ContextLengths == {0, 1, 255, 256, 300}
FlipBit(b, i) == [b EXCEPT ![(i \div 8) + 1] = BXor(@, 2^(i % 8))]
\* the encodings decode is given: small y, y around P, the largest y, and six last bytes
EncodedYs == (0..15) \cup ((P - 2)..(P + 1)) \cup {65535}
EncodedPoints == {LeBytes(y, ED448_LEN - 1) \o <<last>> : y \in EncodedYs, last \in {0, 128, 1, 129, 64, 127}}

\* what verify_signature is given: the signature as signed, or with one bit of
\* the signature or of the message flipped, or under another context, or cut short
Variants(signed) ==
  {<<"none", 0>>, <<"truncated", 0>>}
  \cup {<<"sig", i>> : i \in 0..(8 * Len(signed.sig) - 1)}
  \cup {<<"msg", i>> : i \in 0..(8 * Len(signed.msg) - 1)}
  \cup {<<"context", n>> : n \in ContextLengths \ {Len(signed.context)}}
VariantSig(signed, v) ==
  IF v[1] = "sig" THEN FlipBit(signed.sig, v[2])
  ELSE IF v[1] = "truncated" THEN SubSeq(signed.sig, 1, Len(signed.sig) - 1)
  ELSE signed.sig
VariantMsg(signed, v) == IF v[1] = "msg" THEN FlipBit(signed.msg, v[2]) ELSE signed.msg
VariantContext(signed, v) == IF v[1] = "context" THEN Ed448Context(v[2]) ELSE signed.context

NotSigned == [pgflag |-> FALSE, context |-> <<>>, msg |-> <<>>, sig |-> <<>>]
EdOp(name, ret, variant, context, dom, in, out) ==
  [name |-> name, ret |-> ret, variant |-> variant, context |-> context, dom |-> dom,
   in |-> in, out |-> out]

Ed448Idle ==
  /\ ed_pc = "start"
  /\ ed_sk = <<>>
  /\ ed_pk = <<>>
  /\ ed_signed = NotSigned
  /\ ed_op = EdOp("new", "ok", <<"none", 0>>, <<>>, <<>>, <<>>, <<>>)

\* Ed448Point::decode of some bytes
Ed448Decode ==
  /\ ed_pc = "start"
  /\ \E enc \in EncodedPoints :
       \E res \in {Ed448Point_decode(enc)} :
         ed_op' = EdOp("decode", res.ret, <<"none", 0>>, <<>>, <<>>, enc,
                       IF res.ret = "ok" THEN <<PointX(res.pt), PointY(res.pt)>> ELSE <<>>)
  /\ ed_pc' = "done"
  /\ UNCHANGED <<ed_sk, ed_pk, ed_signed>>
  /\ UNCHANGED nonEdVars

Ed448KeyGen ==
  /\ ed_pc = "start"
  /\ \E sk \in Ed448Seeds :
       /\ ed_sk' = sk
       /\ ed_pk' = create_pk_from_sk(sk)
       /\ ed_op' = EdOp("create_pk_from_sk", "ok", <<"none", 0>>, <<>>, <<>>, sk, ed_pk')
  /\ ed_pc' = "keyed"
  /\ UNCHANGED ed_signed
  /\ UNCHANGED nonEdVars

Ed448Sign ==
  /\ ed_pc = "keyed"
  /\ \E pgflag \in BOOLEAN, n \in ContextLengths, msg \in Ed448Messages :
       \E res \in {sign_message(ed_sk, ed_pk, pgflag, Ed448Context(n), msg)} :
         /\ ed_signed' = [pgflag |-> pgflag, context |-> Ed448Context(n), msg |-> msg, sig |-> res.sig]
         /\ ed_op' = EdOp("sign_message", res.ret, <<"none", 0>>, Ed448Context(n),
                          IF res.ret = "ok" THEN dom4(pgflag, Ed448Context(n)) ELSE <<>>,
                          msg, res.sig)
         /\ ed_pc' = IF res.ret = "ok" THEN "signed" ELSE "done"
  /\ UNCHANGED <<ed_sk, ed_pk>>
  /\ UNCHANGED nonEdVars

Ed448Verify ==
  /\ ed_pc = "signed"
  /\ \E v \in Variants(ed_signed) :
       \E ret \in {verify_signature(ed_pk, ed_signed.pgflag, VariantContext(ed_signed, v),
                                    VariantSig(ed_signed, v), VariantMsg(ed_signed, v))} :
         ed_op' = EdOp("verify_signature", ret, v, VariantContext(ed_signed, v),
                       IF ret \in {"true", "false"}
                       THEN dom4(ed_signed.pgflag, VariantContext(ed_signed, v)) ELSE <<>>,
                       VariantMsg(ed_signed, v), VariantSig(ed_signed, v))
  /\ ed_pc' = "done"
  /\ UNCHANGED <<ed_sk, ed_pk, ed_signed>>
  /\ UNCHANGED nonEdVars

(***************************************************************************)
(* Curve25519 key agreement.  curve25519_donna is not part of the modelled  *)
(* sources; it is modelled as the power pubval^secret in the field of P     *)
(* elements, which is symmetric in the two private keys as X25519 is.       *)
(***************************************************************************)
\* the bytes of a key or public value
X25519_LEN == 32

curve25519_donna(secret, pubval) ==
  LeBytes(GfPow(LeValue(pubval, 1, P), LeValue(secret, 1, P - 1)), 2) \o Zeros(X25519_LEN - 2)

\* const byte basepoint[32] = { 9 }
curve25519_basepoint(secret) == curve25519_donna(secret, <<9>> \o Zeros(X25519_LEN - 1))

size_check_at_least(size) == size >= X25519_LEN
\* size_check passes; otherwise it throws Decoding_Error
size_check(size) == size = X25519_LEN

provider_is_base_by_name(provider) == provider = "base"
\* provider == "base" || provider.empty()
provider_is_base(provider) == provider = "base" \/ provider = ""

\* ---- the values of the model
\* Number of private keys
NumSecrets == 4
X25519Secrets == {Tup([i \in 1..X25519_LEN |-> (n * 53 + i * 11) % 256]) : n \in 1..NumSecrets}
PeerLengths == {0, 1, 31, 32, 33, 64}
PeerValues ==
  {Tup([i \in 1..n |-> (k * 17 + i * 3) % 256]) : n \in PeerLengths, k \in 1..2}
Providers == {"", "base", "openssl", "Base", "tpm"}
KdfParams == {"Raw", "KDF2(SHA-256)"}

NoOperation == [live |-> FALSE, kdf |-> ""]
KaOp(name, ret, in, out, ladder) ==
  [name |-> name, ret |-> ret, in |-> in, out |-> out, ladder |-> ladder]

X25519Idle ==
  /\ m_private = <<>>
  /\ m_public = <<>>
  /\ ka_operation = NoOperation
  /\ ka_op = KaOp("none", "ok", <<>>, <<>>, FALSE)

\* Curve25519_PrivateKey(rng)
X25519New ==
  /\ m_private \in X25519Secrets
  /\ m_public = curve25519_basepoint(m_private)
  /\ ka_operation = NoOperation
  /\ ka_op = KaOp("Curve25519_PrivateKey", "ok", <<>>, m_public, TRUE)

\* Curve25519_PrivateKey::agree, as an outcome
AgreeResult(name, w) ==
  IF size_check(Len(w))
  THEN KaOp(name, "ok", w, curve25519_donna(m_private, w), TRUE)
  ELSE KaOp(name, "Decoding_Error", w, <<>>, FALSE)

agree ==
  /\ \E w \in PeerValues : ka_op' = AgreeResult("agree", w)
  /\ UNCHANGED <<m_private, m_public, ka_operation>>
  /\ UNCHANGED nonKaVars

\* Curve25519_KA_Operation::raw_agree, on the operation object
raw_agree ==
  /\ ka_operation.live
  /\ \E w \in PeerValues : ka_op' = AgreeResult("raw_agree", w)
  /\ UNCHANGED <<m_private, m_public, ka_operation>>
  /\ UNCHANGED nonKaVars

create_key_agreement_op ==
  /\ \E params \in KdfParams, provider \in Providers :
       IF provider_is_base(provider)
       THEN /\ ka_operation' = [live |-> TRUE, kdf |-> params]
            /\ ka_op' = KaOp("create_key_agreement_op", "ok", <<provider>>, <<params>>, FALSE)
       ELSE /\ ka_operation' = NoOperation
            /\ ka_op' = KaOp("create_key_agreement_op", "Provider_Not_Found", <<provider>>, <<>>, FALSE)
  /\ UNCHANGED <<m_private, m_public>>
  /\ UNCHANGED nonKaVars

(***************************************************************************)
(* XMSS_Parameters: an algorithm name, or an algorithm id, resolved to a   *)
(* parameter record.  A name is the sequence of its parts, which the       *)
(* string joins with "_"; an id is the identifier of the enumeration.      *)
(***************************************************************************)
\* m_oid_name_lut, as the pairs of a name and its id
m_oid_name_lut ==
  {
    <<<<"XMSS", "SHA2-256", "W16", "H10">>, "XMSS_SHA2_256_W16_H10">>,
    <<<<"XMSS", "SHA2-256", "W16", "H16">>, "XMSS_SHA2_256_W16_H16">>,
    <<<<"XMSS", "SHA2-256", "W16", "H20">>, "XMSS_SHA2_256_W16_H20">>,
    <<<<"XMSS", "SHA2-512", "W16", "H10">>, "XMSS_SHA2_512_W16_H10">>,
    <<<<"XMSS", "SHA2-512", "W16", "H16">>, "XMSS_SHA2_512_W16_H16">>,
    <<<<"XMSS", "SHA2-512", "W16", "H20">>, "XMSS_SHA2_512_W16_H20">>
  }
OidNameLutDomain == {e[1] : e \in m_oid_name_lut}
\* m_oid_name_lut.at(algo_name), for a name it has
OidNameLutAt(algo_name) == (CHOOSE e \in m_oid_name_lut : e[1] = algo_name)[2]

NoParams == [m_oid |-> "none"]

\* XMSS_Parameters(xmss_algorithm_t oid)
XMSS_Parameters_oid(oid) ==
  CASE
    oid = "XMSS_SHA2_256_W16_H10" ->
      [ret |-> "ok",
       params |-> [m_oid |-> oid, m_element_size |-> 32, m_w |-> 16, m_len |-> 67,
                   m_tree_height |-> 10, m_name |-> <<"XMSS", "SHA2-256", "W16", "H10">>,
                   m_hash_name |-> "SHA-256", m_strength |-> 256,
                   m_wots_oid |-> "WOTSP_SHA2_256_W16"]]
    []
    oid = "XMSS_SHA2_256_W16_H16" ->
      [ret |-> "ok",
       params |-> [m_oid |-> oid, m_element_size |-> 32, m_w |-> 16, m_len |-> 67,
                   m_tree_height |-> 16, m_name |-> <<"XMSS", "SHA2-256", "W16", "H16">>,
                   m_hash_name |-> "SHA-256", m_strength |-> 256,
                   m_wots_oid |-> "WOTSP_SHA2_256_W16"]]
    []
    oid = "XMSS_SHA2_256_W16_H20" ->
      [ret |-> "ok",
       params |-> [m_oid |-> oid, m_element_size |-> 32, m_w |-> 16, m_len |-> 67,
                   m_tree_height |-> 20, m_name |-> <<"XMSS", "SHA2-256", "W16", "H20">>,
                   m_hash_name |-> "SHA-256", m_strength |-> 256,
                   m_wots_oid |-> "WOTSP_SHA2_256_W16"]]
    []
    oid = "XMSS_SHA2_512_W16_H10" ->
      [ret |-> "ok",
       params |-> [m_oid |-> oid, m_element_size |-> 64, m_w |-> 16, m_len |-> 131,
                   m_tree_height |-> 10, m_name |-> <<"XMSS", "SHA2-512", "W16", "H10">>,
                   m_hash_name |-> "SHA-512", m_strength |-> 512,
                   m_wots_oid |-> "WOTSP_SHA2_512_W16"]]
    []
    oid = "XMSS_SHA2_512_W16_H16" ->
      [ret |-> "ok",
       params |-> [m_oid |-> oid, m_element_size |-> 64, m_w |-> 16, m_len |-> 131,
                   m_tree_height |-> 16, m_name |-> <<"XMSS", "SHA2-512", "W16", "H16">>,
                   m_hash_name |-> "SHA-512", m_strength |-> 512,
                   m_wots_oid |-> "WOTSP_SHA2_512_W16"]]
    []
    oid = "XMSS_SHA2_512_W16_H20" ->
      [ret |-> "ok",
       params |-> [m_oid |-> oid, m_element_size |-> 64, m_w |-> 16, m_len |-> 131,
                   m_tree_height |-> 20, m_name |-> <<"XMSS", "SHA2-512", "W16", "H20">>,
                   m_hash_name |-> "SHA-512", m_strength |-> 512,
                   m_wots_oid |-> "WOTSP_SHA2_512_W16"]]
    []
    OTHER -> [ret |-> "Unsupported_Argument", params |-> NoParams]

\* XMSS_Parameters(const std::string& algo_name): std::map::at throws
\* std::out_of_range for a name the table does not have
XMSS_Parameters_name(algo_name) ==
  IF algo_name \in OidNameLutDomain
  THEN XMSS_Parameters_oid(OidNameLutAt(algo_name))
  ELSE [ret |-> "std::out_of_range", params |-> NoParams]

\* ---- the values of the model
XmssAlgorithmNames ==
  {<<family, hash, w, h>> :
     family \in {"XMSS", "XMSSMT"},
     hash \in {"SHA2-256", "SHA2-512", "SHAKE128", "SHAKE256", "SHA2_256"},
     w \in {"W16", "W4"},
     h \in {"H10", "H16", "H20", "H5", "H60"}}
XmssAlgorithmIds ==
  {"XMSS_SHA2_256_W16_H10", "XMSS_SHA2_256_W16_H16", "XMSS_SHA2_256_W16_H20",
   "XMSS_SHA2_512_W16_H10", "XMSS_SHA2_512_W16_H16", "XMSS_SHA2_512_W16_H20",
   "XMSS_SHAKE128_W16_H10", "XMSS_SHAKE128_W16_H16", "XMSS_SHAKE128_W16_H20",
   "XMSS_SHAKE256_W16_H10", "XMSS_SHAKE256_W16_H16", "XMSS_SHAKE256_W16_H20",
   "0"}

XmssParamsIdle ==
  /\ xmss_params = NoParams
  /\ xp_op = [name |-> "none", in |-> <<>>, ret |-> "ok"]

ConstructFromName ==
  /\ \E algo_name \in XmssAlgorithmNames :
       \E res \in {XMSS_Parameters_name(algo_name)} :
         /\ xmss_params' = res.params
         /\ xp_op' = [name |-> "XMSS_Parameters(name)", in |-> algo_name, ret |-> res.ret]
  /\ UNCHANGED nonXpVars

ConstructFromId ==
  /\ \E oid \in XmssAlgorithmIds :
       \E res \in {XMSS_Parameters_oid(oid)} :
         /\ xmss_params' = res.params
         /\ xp_op' = [name |-> "XMSS_Parameters(oid)", in |-> <<oid>>, ret |-> res.ret]
  /\ UNCHANGED nonXpVars

(***************************************************************************)
(* XMSS_Hash: the streaming message hash h_msg_init / update / final       *)
(***************************************************************************)
\* Digest length of the underlying hash, in bytes (scaled down)
XmssOutputLength == 2
\* Most bytes the model lets m_msg_hash absorb
MaxAbsorbed == 8
\* The domain tag of H_msg
m_id_hmsg == 2

m_zero_padding == Zeros(XmssOutputLength - 1)

XmssRandomness == {<<7>>, <<9>>}
XmssRoot == {<<5>>}
XmssIndex == {<<0>>, <<1>>}
XmssData == {<<>>, <<3>>, <<4, 6>>}

\* HashFunction::clear: drop everything absorbed
HashClear(h) == <<>>

\* HashFunction::update: absorb data
HashUpdate(h, data) == Cat(h, data)

\* HashFunction::final: the digest of what was absorbed (an injective
\* stand-in: the absorbed bytes themselves); the hash starts over
HashFinalDigest(h) == h
HashAfterFinal(h) == <<>>

\* the bytes h_msg_init absorbs before any message data
HMsgPrefix(randomness, root, index_bytes) ==
  Cat(Cat(Cat(Cat(m_zero_padding, <<m_id_hmsg>>), randomness), root), index_bytes)

HMsgInitHash_no_clear(h, randomness, root, index_bytes) ==
  HashUpdate(HashUpdate(HashUpdate(HashUpdate(HashUpdate(h,
     m_zero_padding), <<m_id_hmsg>>), randomness), root), index_bytes)

\* the state of m_msg_hash after h_msg_init
HMsgInitHash(h, randomness, root, index_bytes) ==
  HashUpdate(HashUpdate(HashUpdate(HashUpdate(HashUpdate(HashClear(h),
     m_zero_padding), <<m_id_hmsg>>), randomness), root), index_bytes)

XmssIdle ==
  /\ m_msg_hash = <<>>
  /\ xmss_state = "Fresh"
  /\ xmss_prefix = <<>>
  /\ xmss_fed = <<>>
  /\ xmss_op = [name |-> "new", pre |-> "Fresh", ret |-> "ok"]
  /\ xmss_digest = <<>>

h_msg_init ==
  /\ UNCHANGED nonXmssVars
  /\ \E randomness \in XmssRandomness, root \in XmssRoot, index_bytes \in XmssIndex :
    /\ m_msg_hash' = HMsgInitHash(m_msg_hash, randomness, root, index_bytes)
    /\ xmss_state' = "Initialized"
    /\ xmss_prefix' = HMsgPrefix(randomness, root, index_bytes)
    /\ xmss_fed' = <<>>
    /\ xmss_op' = [name |-> "h_msg_init", pre |-> xmss_state, ret |-> "ok"]
    /\ UNCHANGED xmss_digest

\* h_msg_update has no precondition in the code: it forwards to update
h_msg_update ==
  /\ UNCHANGED nonXmssVars
  /\ \E data \in XmssData :
    /\ Len(m_msg_hash) + Len(data) <= MaxAbsorbed
    /\ m_msg_hash' = HashUpdate(m_msg_hash, data)
    /\ xmss_fed' = Cat(xmss_fed, data)
    /\ xmss_op' = [name |-> "h_msg_update", pre |-> xmss_state, ret |-> "ok"]
    /\ UNCHANGED <<xmss_state, xmss_prefix, xmss_digest>>

h_msg_final ==
  /\ xmss_digest' = HashFinalDigest(m_msg_hash)
  /\ m_msg_hash' = HashAfterFinal(m_msg_hash)
  /\ xmss_state' = "Finalized"
  /\ xmss_fed' = <<>>
  /\ xmss_op' = [name |-> "h_msg_final", pre |-> xmss_state, ret |-> "ok"]
  /\ UNCHANGED xmss_prefix
  /\ UNCHANGED nonXmssVars

\* the one-shot h_msg: init, one update, final
h_msg ==
  /\ UNCHANGED nonXmssVars
  /\ \E randomness \in XmssRandomness, root \in XmssRoot, index_bytes \in XmssIndex,
     data \in XmssData :
    LET h1 == HMsgInitHash(m_msg_hash, randomness, root, index_bytes)
        h2 == HashUpdate(h1, data)
    IN /\ xmss_digest' = HashFinalDigest(h2)
       /\ m_msg_hash' = HashAfterFinal(h2)
       /\ xmss_state' = "Finalized"
       /\ xmss_prefix' = HMsgPrefix(randomness, root, index_bytes)
       /\ xmss_fed' = <<>>
       /\ xmss_op' = [name |-> "h_msg", pre |-> xmss_state, ret |-> "ok"]

(***************************************************************************)
(* FFI utilities (ffi_util.h): output buffers and object handles           *)
(***************************************************************************)
\* the largest capacity a caller passes in *out_len
MaxOut == 3
\* the bytes of memory at out the model follows: the capacity and what lies
\* behind it, enough for the longest buffer written
OutSize == MaxOut + 2
BufBytes == {1, 2}
\* what the caller's memory holds before a call
JunkBytes == {255}
Bufs == UNION {[1..n -> BufBytes] : n \in 0..(MaxOut + 1)}
Strs == UNION {[1..n -> BufBytes] : n \in 0..MaxOut}
\* std::string::c_str(): the characters and the terminating NUL
c_str(str) == str \o <<0>>

\* Botan::copy_mem(out, in, n), Botan::clear_mem(out, n) on bytes
copy_mem(out, in, n) == [i \in 1..Len(out) |-> IF i <= n THEN in[i] ELSE out[i]]
clear_mem_n(out, n) == [i \in 1..Len(out) |-> IF i <= n THEN 0 ELSE out[i]]

\* a write_output that hands out as much of buf as fits
write_output_truncating(out, avail, buf, buf_len) ==
  IF avail >= buf_len
  THEN [ret |-> "BOTAN_FFI_SUCCESS", out |-> copy_mem(out, buf, buf_len), out_len |-> buf_len]
  ELSE [ret |-> "BOTAN_FFI_ERROR_INSUFFICIENT_BUFFER_SPACE",
        out |-> copy_mem(out, buf, avail), out_len |-> buf_len]

\* write_output(out, out_len, buf, buf_len) with avail = *out_len on entry:
\* what it returns, the memory at out and *out_len afterwards
write_output_ret(out, avail, buf, buf_len) ==
  IF avail >= buf_len
  THEN [ret |-> "BOTAN_FFI_SUCCESS", out |-> copy_mem(out, buf, buf_len), out_len |-> buf_len]
  ELSE [ret |-> "BOTAN_FFI_ERROR_INSUFFICIENT_BUFFER_SPACE",
        out |-> clear_mem_n(out, avail), out_len |-> buf_len]

\* write_str_output(out, out_len, str)
write_str_output_ret(out, avail, str) ==
  write_output_ret(out, avail, c_str(str), Len(str) + 1)

NoHandle == [storage |-> "none", m_magic |-> 0, m_obj |-> "nullptr"]
NoFfiOp ==
  [name |-> "none", arg |-> "none", ret |-> "none", reached |-> FALSE, destroyed |-> FALSE,
   storage |-> "none", magic |-> 0, avail |-> 0, buf |-> <<>>, old_out |-> <<>>]

FfiIdle ==
  /\ ffi_handle = NoHandle
  /\ ffi_obj = "none"
  /\ ffi_out = <<>>
  /\ ffi_out_len = 0
  /\ ffi_op = NoFfiOp

OutputCall(name, avail, buf, old_out, r) ==
  /\ ffi_out' = r.out
  /\ ffi_out_len' = r.out_len
  /\ ffi_op' = [NoFfiOp EXCEPT !.name = name, !.ret = r.ret, !.avail = avail,
                               !.buf = buf, !.old_out = old_out]
  /\ UNCHANGED <<ffi_handle, ffi_obj>>

write_output ==
  /\ \E avail \in 0..MaxOut, buf \in Bufs, junk \in JunkBytes :
       \E old_out \in {[i \in 1..OutSize |-> junk]} :
         OutputCall("write_output", avail, buf, old_out,
                    write_output_ret(old_out, avail, buf, Len(buf)))
  /\ UNCHANGED nonFfiVars

write_str_output ==
  /\ \E avail \in 0..MaxOut, str \in Strs, junk \in JunkBytes :
       \E old_out \in {[i \in 1..OutSize |-> junk]} :
         OutputCall("write_str_output", avail, c_str(str), old_out,
                    write_str_output_ret(old_out, avail, str))
  /\ UNCHANGED nonFfiVars

\* ---- object handles: botan_struct<T, MAGIC>
\* the template argument of the handle type the calls are made for
MAGIC == 1224867265
\* a live handle of another type, as BOTAN_FFI_DECLARE_STRUCT declares it
\* with a magic of its own, passed where this type is expected
ForeignStruct == [storage |-> "live", m_magic |-> MAGIC + 1, m_obj |-> "object"]
HandleArgs == {"null", "handle", "foreign"}
\* the struct an argument points to
StructAt(arg) == IF arg = "foreign" THEN ForeignStruct ELSE ffi_handle
\* what a read of m_magic and of m_obj gives: the field of a live struct; for
\* a struct whose storage delete has released the read is undefined, and
\* gives the value the destructor stored or the value from before it
ReadMagic(h) == IF h.storage = "freed" THEN {0, MAGIC} ELSE {h.m_magic}
ReadObj(h) == IF h.storage = "freed" THEN {"nullptr", "object"} ELSE {h.m_obj}

\* botan_struct::magic_ok() on the value read from m_magic
magic_ok(m_magic) == m_magic = MAGIC
\* botan_struct::get() on the values read from m_magic and m_obj
get_ret(m_magic, m_obj) ==
  IF magic_ok(m_magic) = FALSE THEN "FFI_Error" ELSE m_obj
\* ffi_error_exception_thrown(func_name, exn)
ffi_error_exception_thrown == "BOTAN_FFI_ERROR_EXCEPTION_THROWN"
\* what the function passed to apply_fn does: it returns a code or throws
FuncOutcomes == {"BOTAN_FFI_SUCCESS", "BOTAN_FFI_ERROR_BAD_FLAG", "throws"}

\* apply_fn(o, func_name, func): the code returned and whether func ran on
\* the object
apply_fn_ret(arg, m_magic, m_obj, func) ==
  IF arg = "null" THEN [ret |-> ffi_error_exception_thrown, reached |-> FALSE]
  ELSE IF get_ret(m_magic, m_obj) = "FFI_Error"
  THEN [ret |-> ffi_error_exception_thrown, reached |-> FALSE]
  ELSE IF get_ret(m_magic, m_obj) = "nullptr"
  THEN [ret |-> "BOTAN_FFI_ERROR_UNKNOWN_ERROR", reached |-> FALSE]
  ELSE [ret |-> IF func = "throws" THEN ffi_error_exception_thrown ELSE func,
        reached |-> TRUE]

\* ffi_delete_object(obj, func_name): the code returned and whether delete ran
ffi_delete_object_ret(arg, m_magic) ==
  IF arg = "null" THEN [ret |-> "BOTAN_FFI_SUCCESS", deleted |-> FALSE]
  ELSE IF magic_ok(m_magic) = FALSE
  THEN [ret |-> "BOTAN_FFI_ERROR_INVALID_INPUT", deleted |-> FALSE]
  ELSE [ret |-> "BOTAN_FFI_SUCCESS", deleted |-> TRUE]

\* ~botan_struct(): m_magic = 0, m_obj.reset(); then the storage is released
destroyed_struct == [storage |-> "freed", m_magic |-> 0, m_obj |-> "nullptr"]

HandleCall(name, arg, m_magic, ret, reached, destroyed) ==
  ffi_op' = [NoFfiOp EXCEPT !.name = name, !.arg = arg, !.ret = ret, !.reached = reached,
                            !.destroyed = destroyed, !.storage = StructAt(arg).storage,
                            !.magic = m_magic]

\* botan_struct(T* obj): the constructor behind a botan_x_init call
botan_struct ==
  /\ ffi_handle.storage = "none"
  /\ \E obj \in {"object", "nullptr"} :
       /\ ffi_handle' = [storage |-> "live", m_magic |-> MAGIC, m_obj |-> obj]
       /\ ffi_obj' = IF obj = "object" THEN "alive" ELSE "none"
       /\ HandleCall("botan_struct", "handle", MAGIC, "none", FALSE, FALSE)
  /\ UNCHANGED <<ffi_out, ffi_out_len>>
  /\ UNCHANGED nonFfiVars

\* the pointers a caller holds: null, the handle once it was constructed,
\* and the handle of the other type
HeldArgs == {arg \in HandleArgs : arg = "handle" => ffi_handle.storage # "none"}

get ==
  /\ \E arg \in HeldArgs \ {"null"} :
       \E m_magic \in ReadMagic(StructAt(arg)), m_obj \in ReadObj(StructAt(arg)) :
         HandleCall("get", arg, m_magic, get_ret(m_magic, m_obj),
                    get_ret(m_magic, m_obj) = "object", FALSE)
  /\ UNCHANGED <<ffi_handle, ffi_obj, ffi_out, ffi_out_len>>
  /\ UNCHANGED nonFfiVars

apply_fn ==
  /\ \E arg \in HeldArgs, func \in FuncOutcomes :
       \E m_magic \in ReadMagic(StructAt(arg)), m_obj \in ReadObj(StructAt(arg)) :
         \E r \in {apply_fn_ret(arg, m_magic, m_obj, func)} :
           HandleCall("apply_fn", arg, m_magic, r.ret, r.reached, FALSE)
  /\ UNCHANGED <<ffi_handle, ffi_obj, ffi_out, ffi_out_len>>
  /\ UNCHANGED nonFfiVars

ffi_delete_object ==
  /\ \E arg \in HeldArgs :
       \E m_magic \in ReadMagic(StructAt(arg)), m_obj \in ReadObj(StructAt(arg)) :
         \E r \in {ffi_delete_object_ret(arg, m_magic)} :
           /\ HandleCall("ffi_delete_object", arg, m_magic, r.ret,
                         r.deleted /\ m_obj = "object", r.deleted)
           /\ ffi_handle' = IF r.deleted THEN destroyed_struct ELSE ffi_handle
           /\ ffi_obj' = IF r.deleted /\ m_obj = "object" THEN "destroyed" ELSE ffi_obj
  /\ UNCHANGED <<ffi_out, ffi_out_len>>
  /\ UNCHANGED nonFfiVars

(***************************************************************************)
(* The specifications, one per subsystem                                   *)
(***************************************************************************)
XmssInit == XmssIdle /\ AesIdle /\ BigIntIdle /\ Ed448Idle /\ X25519Idle /\ XmssParamsIdle /\ CpuidIdle /\ FfiIdle

XmssNext == h_msg_init \/ h_msg_update \/ h_msg_final \/ h_msg

SpecXmss == XmssInit /\ [][XmssNext]_vars

AesInit == AesNew /\ XmssIdle /\ BigIntIdle /\ Ed448Idle /\ X25519Idle /\ XmssParamsIdle /\ CpuidIdle /\ FfiIdle

AesNext == key_schedule \/ encrypt_n \/ decrypt_n \/ clear \/ AES_provider

SpecAes == AesInit /\ [][AesNext]_vars

CpuidInit ==
  CpuidNew /\ AesIdle /\ XmssIdle /\ BigIntIdle /\ Ed448Idle /\ X25519Idle /\ XmssParamsIdle /\ FfiIdle

CpuidNext == initialize \/ clear_cpuid_bit \/ has_cpuid_bit

SpecCpuid == CpuidInit /\ [][CpuidNext]_vars

\* an AES instance in a process whose feature vector the test hook changes
AesCpuidInit ==
  HookedNew /\ CpuidIdle
    /\ XmssIdle /\ BigIntIdle /\ Ed448Idle /\ X25519Idle /\ XmssParamsIdle /\ FfiIdle

AesCpuidNext ==
  key_schedule \/ encrypt_n \/ decrypt_n \/ clear \/ clear_cpuid_bit \/ initialize

SpecAesCpuid == AesCpuidInit /\ [][AesCpuidNext]_vars

BigIntInit == BigIntNew /\ XmssIdle /\ AesIdle /\ Ed448Idle /\ X25519Idle /\ XmssParamsIdle /\ CpuidIdle /\ FfiIdle

BigIntNext ==
  operator_minus \/ abs \/ set_bit \/ clear_bit \/ binary_decode \/ binary_encode

SpecBigInt == BigIntInit /\ [][BigIntNext]_vars

\* the BigInt calls that take arguments or report an outcome
BigIntCallsInit ==
  BigIntCallsNew /\ XmssIdle /\ AesIdle /\ Ed448Idle /\ X25519Idle /\ XmssParamsIdle /\ CpuidIdle /\ FfiIdle

BigIntCallsNext ==
  \/ ct_cond_assign \/ get_substring \/ const_time_lookup
  \/ encode_words \/ to_u32bit \/ reduce_below \/ BigInt_max_bits
  \/ cmp \/ is_less_than

SpecBigIntCalls == BigIntCallsInit /\ [][BigIntCallsNext]_vars

Ed448Init == Ed448Idle /\ XmssIdle /\ AesIdle /\ BigIntIdle /\ X25519Idle /\ XmssParamsIdle /\ CpuidIdle /\ FfiIdle

Ed448Next == Ed448Decode \/ Ed448KeyGen \/ Ed448Sign \/ Ed448Verify

SpecEd448 == Ed448Init /\ [][Ed448Next]_vars

X25519Init == X25519New /\ XmssIdle /\ AesIdle /\ BigIntIdle /\ Ed448Idle /\ XmssParamsIdle /\ CpuidIdle /\ FfiIdle

X25519Next == create_key_agreement_op \/ agree \/ raw_agree

SpecX25519 == X25519Init /\ [][X25519Next]_vars

XmssParamsInit ==
  XmssParamsIdle /\ XmssIdle /\ AesIdle /\ BigIntIdle /\ Ed448Idle /\ X25519Idle /\ CpuidIdle /\ FfiIdle

XmssParamsNext == ConstructFromName \/ ConstructFromId

SpecXmssParams == XmssParamsInit /\ [][XmssParamsNext]_vars

FfiInit ==
  FfiIdle /\ XmssIdle /\ AesIdle /\ BigIntIdle /\ Ed448Idle /\ X25519Idle /\ XmssParamsIdle
    /\ CpuidIdle

FfiNext ==
  \/ write_output \/ write_str_output
  \/ botan_struct \/ get \/ apply_fn \/ ffi_delete_object

SpecFfi == FfiInit /\ [][FfiNext]_vars

(***************************************************************************)
(* AES: properties                                                         *)
(***************************************************************************)
BaseEncrypt(in, ks, cache_line_size) == aes_encrypt_n(in, ks.EK, ks.ME, cache_line_size)
BaseDecrypt(in, ks, cache_line_size) == aes_decrypt_n(in, ks.DK, ks.MD, cache_line_size)

\* C1: for a key of 16, 24 or 32 bytes, aes_decrypt_n under the schedule of
\* aes_key_schedule returns the blocks aes_encrypt_n was given; the
\* ciphertext the dispatched backend produced is the ciphertext of the
\* T-table implementation; and decrypt_n of that ciphertext, by whichever
\* backend is dispatched, returns the plaintext.
C1_RoundTripAndBackendsAgree ==
  (Len(aes_key) \in {16, 24, 32} /\ aes_op.ret = "ok") =>
    /\ aes_op.name = "encrypt_n" =>
         /\ aes_op.out = BaseEncrypt(aes_op.in, BaseKeySchedules[aes_key, FALSE],
                                     cpuid.cache_line_size)
         /\ BaseDecrypt(aes_op.out, BaseKeySchedules[aes_key, FALSE],
                        cpuid.cache_line_size) = aes_op.in
    /\ (aes_op.name = "decrypt_n" /\ aes_op.pt # <<>>) => aes_op.out = aes_op.pt

\* a hardware backend decrypted the two-block ciphertext it had produced
\* under a 24-byte key
C1_Witness ==
  /\ aes_op.name = "decrypt_n" /\ aes_op.ret = "ok"
  /\ aes_op.backend = "armv8"
  /\ Len(aes_key) = 24
  /\ Len(aes_op.pt) = 32
  /\ aes_op.out = aes_op.pt

\* C5 (as claimed): encrypt_n, decrypt_n and key_schedule each call the first
\* available backend in the order AES-NI, ARMv8, POWER8, vperm, base; base
\* only when none of the four feature bits is set.
C5_SameOrderForAllThree ==
  aes_op.name \in {"encrypt_n", "decrypt_n", "key_schedule"} =>
    aes_op.backend = (IF cpuid.aes_ni THEN "aesni"
                      ELSE IF cpuid.arm_aes THEN "armv8"
                      ELSE IF cpuid.power_crypto THEN "power8"
                      ELSE IF cpuid.vperm THEN "vperm"
                      ELSE "base")

\* C5 (amended): encrypt_n and decrypt_n call the first available backend in
\* the order AES-NI, ARMv8, POWER8, vperm, base.  key_schedule consults the
\* bits in the same order, but calls the base aes_key_schedule also when the
\* first available bit is ARMv8 or POWER8: it calls the AES-NI schedule
\* under AES-NI, the vperm schedule when vperm is set and none of the first
\* three is, and the base schedule otherwise.
C5_DispatchOrder ==
  /\ aes_op.name \in {"encrypt_n", "decrypt_n"} =>
       aes_op.backend = (IF cpuid.aes_ni THEN "aesni"
                         ELSE IF cpuid.arm_aes THEN "armv8"
                         ELSE IF cpuid.power_crypto THEN "power8"
                         ELSE IF cpuid.vperm THEN "vperm"
                         ELSE "base")
  /\ aes_op.name = "key_schedule" =>
       aes_op.backend = (IF cpuid.aes_ni THEN "aesni"
                         ELSE IF cpuid.arm_aes \/ cpuid.power_crypto THEN "base"
                         ELSE IF cpuid.vperm THEN "vperm"
                         ELSE "base")
  /\ (aes_op.name = "key_schedule" /\ aes_op.ret = "ok") =>
       \* the base schedule fills ME and MD, the other two do not
       (aes_op.backend = "base") = (Len(m_ME) = 16 /\ Len(m_MD) = 16)

\* encrypt_n with the ARMv8, POWER8 and vperm bits set and AES-NI absent:
\* ARMv8 is called, on key material the base schedule produced
C5_Witness ==
  /\ aes_op.name = "encrypt_n" /\ aes_op.ret = "ok"
  /\ ~cpuid.aes_ni /\ cpuid.arm_aes /\ cpuid.power_crypto /\ cpuid.vperm
  /\ aes_op.backend = "armv8"
  /\ Len(m_ME) = 16

Fips197Ciphertext ==
  <<105, 196, 224, 216, 106, 123, 4, 48, 216, 205, 183, 128, 112, 180, 197, 90>>
\* the base encrypt_n of the one block 00 11 22 .. ff, after the base key schedule
BaseEncryptedBlock ==
  /\ aes_op.name = "encrypt_n" /\ aes_op.ret = "ok" /\ aes_op.backend = "base"
  /\ key_schedule_backend(cpuid) = "base"
  /\ aes_op.in = AesBlock

\* C19, as stated: AES-128 under the key 00 11 22 .. ff encrypts the block
\* 00 11 22 .. ff to 69c4e0d86a7b0430d8cdb78070b4c55a.
C19_VectorWithKey0011 ==
  (BaseEncryptedBlock /\ aes_key = AesKey(16, 17)) => aes_op.out = Fips197Ciphertext

\* C19, amended: AES-128 under the key 00 01 02 .. 0f encrypts the block
\* 00 11 22 .. ff to 69c4e0d86a7b0430d8cdb78070b4c55a.
C19_VectorWithKey0001 ==
  (BaseEncryptedBlock /\ aes_key = AesKey(16, 1)) => aes_op.out = Fips197Ciphertext

\* C19 witness: the block was encrypted under the key 00 01 02 .. 0f
C19_Witness ==
  /\ BaseEncryptedBlock
  /\ aes_key = AesKey(16, 1)
  /\ aes_op.out = Fips197Ciphertext

\* C22: encrypt_n and decrypt_n write output only if a key_schedule has
\* completed since construction and since the most recent clear(); otherwise
\* they fail with a key-not-set error and write nothing; after clear() the
\* four buffers EK, DK, ME, MD are empty.
C22_OutputOnlyWithKey ==
  /\ aes_op.name \in {"encrypt_n", "decrypt_n"} =>
       /\ aes_op.out # <<>> => aes_key # <<>>
       /\ aes_key = <<>> => aes_op.ret = "Key_Not_Set" /\ aes_op.out = <<>>
  /\ aes_op.name = "clear" =>
       m_EK = <<>> /\ m_DK = <<>> /\ m_ME = <<>> /\ m_MD = <<>>

\* C22: a decrypt_n call on an instance without a key failed with key-not-set
C22_Witness ==
  /\ aes_op.name = "decrypt_n" /\ aes_key = <<>>
  /\ aes_op.ret = "Key_Not_Set" /\ aes_op.out = <<>>

\* C23: the backend encrypt_n or decrypt_n dispatches to is the backend whose
\* key_schedule last populated the key material of the instance, also when
\* the CPU-feature vector has changed between the calls.
C23_DispatchMatchesKeySchedule ==
  (aes_op.name \in {"encrypt_n", "decrypt_n"} /\ aes_key # <<>>) =>
     aes_op.backend = aes_key_backend

\* C24: for every cache-line size and every placement of the tables at a
\* multiple of 64 bytes, the sweep of aes_encrypt_n reads an entry of every
\* cache line the 1024 bytes of TE occupy, and the sweeps of aes_decrypt_n
\* read an entry of every cache line of TD and of the 256 bytes of SD.
C24_SweepReadsEveryLine ==
  (aes_op.backend = "base" /\ aes_op.ret = "ok") =>
     /\ aes_op.name = "encrypt_n" =>
          LinesOf(aes_tables.TE, 1024, cpuid.cache_line_size) \subseteq aes_swept.TE
     /\ aes_op.name = "decrypt_n" =>
          /\ LinesOf(aes_tables.TD, 1024, cpuid.cache_line_size) \subseteq aes_swept.TD
          /\ LinesOf(aes_tables.SD, 256, cpuid.cache_line_size) \subseteq aes_swept.SD

\* C25: TE[82] and TD[99] are zero because SE[82] and SD[99] are, so Z is zero
\* when the block loop starts, and the output of aes_encrypt_n and
\* aes_decrypt_n is the same for every cache-line size.
C25_MaskIsZero ==
  /\ SE(82) = 0 /\ SD(99) = 0
  /\ AES_TE[82] = ZeroWord /\ AES_TD[99] = ZeroWord
  /\ (aes_op.backend = "base" /\ aes_op.ret = "ok" /\ Len(aes_key) \in {16, 24, 32}) =>
       /\ aes_op.name = "encrypt_n" =>
            /\ EncryptZ(cpuid.cache_line_size) = ZeroWord
            /\ \A c \in CacheLineSizes : aes_op.out = aes_encrypt_n(aes_op.in, m_EK, m_ME, c)
       /\ aes_op.name = "decrypt_n" =>
            /\ DecryptZ(cpuid.cache_line_size) = ZeroWord
            /\ \A c \in CacheLineSizes : aes_op.out = aes_decrypt_n(aes_op.in, m_DK, m_MD, c)

\* C25: the base implementation decrypted a block on a machine with 128-byte lines
C25_Witness ==
  /\ aes_op.name = "decrypt_n" /\ aes_op.backend = "base" /\ aes_op.ret = "ok"
  /\ Len(aes_key) = 16 /\ cpuid.cache_line_size = 128 /\ Len(aes_op.out) = 16

\* C26: after every completed base key schedule for a key of key_len bytes,
\* EK and DK each hold exactly key_len/4 + 24 words, and ME and MD 16 bytes.
C26_QuarterLengthPlus24 ==
  (aes_op.name = "key_schedule" /\ aes_op.backend = "base" /\ aes_op.ret = "ok") =>
     /\ Len(m_EK) = (aes_op.len \div 4) + 24 /\ Len(m_DK) = (aes_op.len \div 4) + 24
     /\ Len(m_ME) = 16 /\ Len(m_MD) = 16

\* C26, amended: after every completed base key schedule for a key of key_len
\* bytes, EK and DK each hold exactly key_len + 24 words, and ME and MD 16 bytes.
C26_LengthPlus24 ==
  (aes_op.name = "key_schedule" /\ aes_op.backend = "base" /\ aes_op.ret = "ok") =>
     /\ Len(m_EK) = aes_op.len + 24 /\ Len(m_DK) = aes_op.len + 24
     /\ Len(m_ME) = 16 /\ Len(m_MD) = 16

\* C26: a base key schedule for a 24-byte key completed
C26_Witness ==
  /\ aes_op.name = "key_schedule" /\ aes_op.backend = "base" /\ aes_op.ret = "ok"
  /\ aes_op.len = 24 /\ Len(m_EK) = 48 /\ Len(m_ME) = 16

C20_ClearedUntilInitialize ==
  /\ (cpuid_op.name = "has_cpuid_bit" /\ cpuid_op.bit \in cpuid_cleared) => cpuid_op.ret = FALSE
  /\ cpuid_op.name = "clear_cpuid_bit" =>
       /\ cpuid[cpuid_op.bit] = FALSE
       /\ \A b \in DOMAIN cpuid \ {cpuid_op.bit} : cpuid[b] = cpuid_op.before[b]
  /\ cpuid_op.name = "initialize" => cpuid = cpuid_detected
  /\ (cpuid_op.name = "has_cpuid_bit" /\ cpuid_op.bit \notin cpuid_cleared) =>
       cpuid_op.ret = cpuid_detected[cpuid_op.bit]

\* C20 witness: sse2 is detected, was cleared together with another bit, and
\* the query of sse2 returns false while a detected bit that was not cleared
\* is still set
C20_Witness ==
  /\ cpuid_op.name = "has_cpuid_bit" /\ cpuid_op.bit = "sse2"
  /\ cpuid_detected.sse2 /\ cpuid_detected.vperm
  /\ cpuid_cleared = {"sse2", "aes_ni"}
  /\ cpuid_op.ret = FALSE
  /\ cpuid.vperm

(***************************************************************************)
(* XMSS_Parameters: properties                                             *)
(***************************************************************************)
\* Invalid_Argument and its subtype
InvalidArgumentKinds == {"Invalid_Argument", "Unsupported_Argument"}

\* C13 (as claimed): constructing XMSS_Parameters from a name or an id that
\* is not one of the six supported fails with Invalid_Argument or a subtype
\* and yields no record; for a supported name the record's name is that name.
C13_UnsupportedIsInvalidArgument ==
  /\ xp_op.name = "XMSS_Parameters(name)" =>
       IF xp_op.in \in OidNameLutDomain
       THEN xp_op.ret = "ok" /\ xmss_params.m_name = xp_op.in
       ELSE xp_op.ret \in InvalidArgumentKinds /\ xmss_params = NoParams
  /\ xp_op.name = "XMSS_Parameters(oid)" =>
       IF xp_op.in[1] \in {e[2] : e \in m_oid_name_lut}
       THEN xp_op.ret = "ok" /\ xmss_params.m_oid = xp_op.in[1]
       ELSE xp_op.ret \in InvalidArgumentKinds /\ xmss_params = NoParams

(***************************************************************************)
(* Curve25519: properties                                                  *)
(***************************************************************************)
\* C11: create_key_agreement_op returns an operation object exactly when the
\* provider is "base" or empty; for any other provider it raises
\* Provider_Not_Found and returns no object.
C11_ProviderSelectsOperation ==
  ka_op.name = "create_key_agreement_op" =>
    /\ (ka_op.ret = "ok") = (ka_op.in[1] \in {"base", ""})
    /\ (ka_op.ret = "ok") = ka_operation.live
    /\ ka_op.ret # "ok" => (ka_op.ret = "Provider_Not_Found" /\ ka_op.out = <<>>)

\* the empty provider gives an operation object
C11_Witness ==
  /\ ka_op.name = "create_key_agreement_op"
  /\ ka_op.in = <<"">>
  /\ ka_operation.live

\* C12 (as claimed): agree with a peer value that is not 32 bytes long fails
\* with Invalid_Argument before the ladder runs and returns no secret.
C12_WrongSizeIsInvalidArgument ==
  (ka_op.name \in {"agree", "raw_agree"} /\ Len(ka_op.in) # X25519_LEN) =>
    (ka_op.ret = "Invalid_Argument" /\ ~ka_op.ladder /\ ka_op.out = <<>>)

\* C12 (amended): agree with a peer value that is not 32 bytes long fails
\* with Decoding_Error before the ladder runs and returns no secret; with 32
\* bytes it runs the ladder and returns 32 bytes.
C12_WrongSizeIsDecodingError ==
  ka_op.name \in {"agree", "raw_agree"} =>
    /\ Len(ka_op.in) # X25519_LEN =>
         (ka_op.ret = "Decoding_Error" /\ ~ka_op.ladder /\ ka_op.out = <<>>)
    /\ Len(ka_op.in) = X25519_LEN =>
         (ka_op.ret = "ok" /\ ka_op.ladder /\ Len(ka_op.out) = X25519_LEN)

\* a peer value one byte too long
C12_Witness ==
  /\ ka_op.name = "agree"
  /\ Len(ka_op.in) = X25519_LEN + 1
  /\ ka_op.ret = "Decoding_Error"

(***************************************************************************)
(* Ed448: properties                                                       *)
(***************************************************************************)
\* C2: a signature made by sign_message under a key pair, a context shorter
\* than 256 bytes and phflag false verifies, under the same public key,
\* context and message: verify_signature returns true.
C2_SignThenVerify ==
  (ed_op.name = "verify_signature" /\ ed_op.variant[1] = "none" /\ ~ed_signed.pgflag)
    => ed_op.ret = "true"

C2_Witness ==
  /\ ed_op.name = "verify_signature" /\ ed_op.variant[1] = "none" /\ ~ed_signed.pgflag
  /\ Len(ed_signed.context) = 255
  /\ Len(ed_signed.msg) > 0
  /\ ed_op.ret = "true"

\* C3 (as claimed): flipping any one bit of a valid signature, or of the
\* message it signs, makes verify_signature return false.
C3_FlipReturnsFalse ==
  (ed_op.name = "verify_signature" /\ ed_op.variant[1] \in {"sig", "msg"})
    => ed_op.ret = "false"

\* C3 (amended): after such a flip verify_signature never returns true: it
\* returns false, or it fails with Decoding_Error, which it does only for a
\* flip in the signature, when the flipped R is not the encoding of a point
\* or the flipped S is not below L; a flip in the message gives false.
C3_FlipNeverVerifies ==
  (ed_op.name = "verify_signature" /\ ed_op.variant[1] \in {"sig", "msg"}) =>
    /\ ed_op.ret \in {"false", "Decoding_Error"}
    /\ ed_op.variant[1] = "msg" => ed_op.ret = "false"
    /\ (ed_op.ret = "Decoding_Error") =
         \/ Ed448Point_decode(SubSeq(ed_op.out, 1, ED448_LEN)).ret # "ok"
         \/ ~bytes_are_reduced(SubSeq(ed_op.out, ED448_LEN + 1, 2 * ED448_LEN))

\* a flip in the last byte of R, which decode rejects
C3_Witness ==
  /\ ed_op.name = "verify_signature"
  /\ ed_op.variant = <<"sig", 8 * (ED448_LEN - 1)>>
  /\ ed_op.ret = "Decoding_Error"

\* the curve equation x^2 + y^2 = 1 + d x^2 y^2, d = -39081
OnCurve(x, y) ==
  (((x * x) % P) + ((y * y) % P)) % P
    = (1 + (((((P - (MINUS_D % P)) * ((x * x) % P)) % P) * ((y * y) % P)) % P)) % P

\* C4: decode fails with Decoding_Error exactly when (a) the last byte has a
\* bit other than bit 7 set, (b) y >= p, (c) no x is on the curve with y, or
\* (d) x = 0 with parity bit 1; otherwise it returns the point on the curve
\* with that y whose x has the encoded parity.
C4_DecodeRejects ==
  ed_op.name = "decode" =>
    /\ (ed_op.ret = "Decoding_Error") =
         \/ ed_op.in[ED448_LEN] % 128 # 0
         \/ ed_op.in[1] + 256 * ed_op.in[2] >= P
         \/ ~\E x \in 0..(P - 1) : OnCurve(x, ed_op.in[1] + 256 * ed_op.in[2])
         \/ OnCurve(0, ed_op.in[1] + 256 * ed_op.in[2]) /\ ed_op.in[ED448_LEN] = 128
    /\ ed_op.ret # "Decoding_Error" =>
         /\ ed_op.ret = "ok"
         /\ ed_op.out[2] = ed_op.in[1] + 256 * ed_op.in[2]
         /\ OnCurve(ed_op.out[1], ed_op.out[2])
         /\ (ed_op.out[1] % 2 = 1) = (ed_op.in[ED448_LEN] = 128)

\* y = 1, where x = 0, with parity bit 1
C4_Witness ==
  /\ ed_op.name = "decode"
  /\ ed_op.in = <<1, 0, 128>>
  /\ ed_op.ret = "Decoding_Error"

\* C9: sign_message and verify_signature of a well-formed signature fail
\* with Invalid_Argument exactly for the contexts of 256 bytes or more; for
\* the shorter ones they succeed and the dom4 string hashed is "SigEd448",
\* the flag, one octet equal to the context length, and the context.
C9_ContextLength ==
  ((ed_op.name = "sign_message") \/
   (ed_op.name = "verify_signature" /\ ed_op.variant[1] \in {"none", "context"})) =>
    /\ (ed_op.ret = "Invalid_Argument") = (Len(ed_op.context) >= 256)
    /\ Len(ed_op.context) <= 255 =>
         /\ ed_op.ret \in {"ok", "true", "false"}
         /\ SubSeq(ed_op.dom, 1, 8) = <<83, 105, 103, 69, 100, 52, 52, 56>>
         /\ ed_op.dom[10] = Len(ed_op.context)
         /\ SubSeq(ed_op.dom, 11, Len(ed_op.dom)) = ed_op.context

\* a signature under a context of 255 bytes, verified under it
C9_Witness ==
  /\ ed_op.name = "verify_signature" /\ ed_op.variant[1] = "none"
  /\ Len(ed_op.context) = 255
  /\ ed_op.dom[10] = 255
  /\ ed_op.ret = "true"

(***************************************************************************)
(* BigInt: properties                                                      *)
(***************************************************************************)
\* b without its leading zero bytes
RECURSIVE StripLeadingZeros(_)
StripLeadingZeros(b) ==
  IF b # <<>> /\ Head(b) = 0 THEN StripLeadingZeros(Tail(b)) ELSE b

\* C6: while the value is the one binary_decode made of the byte string b,
\* bits() <= 8*|b| and bytes() <= |b|, and binary_encode gives b without its
\* leading zero bytes.
C6_DecodeEncodeRoundTrip ==
  big_op.decoded =>
    /\ bits(m_reg) <= 8 * Len(big_op.in)
    /\ bytes(m_reg) <= Len(big_op.in)
    /\ big_op.name = "binary_encode" => big_op.out = StripLeadingZeros(big_op.in)

\* a string longer than a word, with a leading zero byte, decoded and encoded
C6_Witness ==
  /\ big_op.name = "binary_encode" /\ big_op.decoded
  /\ Len(big_op.in) > WORD_BYTES + 1
  /\ big_op.in[1] = 0
  /\ Len(big_op.out) > WORD_BYTES
  /\ Len(big_op.out) < Len(big_op.in)

\* C7 (as claimed): after any constructor and any sequence of negation, abs,
\* set_bit, clear_bit, binary_decode and ct_cond_assign, a BigInt whose
\* magnitude is zero has sign Positive.
C7_ZeroIsPositive ==
  calc_sig_words(m_reg) = 0 => m_signedness = "Positive"

\* bit n of the magnitude held in the words reg; 0 beyond the stored words
MagnitudeBit(reg, n) ==
  IF n \div (8 * WORD_BYTES) >= Len(reg) THEN 0
  ELSE Bit(reg[(n \div (8 * WORD_BYTES)) + 1][WORD_BYTES - ((n % (8 * WORD_BYTES)) \div 8)], n % 8)
\* bit i of a uint32_t
Uint32Bit(w, i) == Bit(w[4 - (i \div 8)], i % 8)

\* C14: get_substring(offset, length) with 1 <= length <= 32 returns the
\* integer whose bit i, for i < length, is bit offset+i of the magnitude (0
\* beyond the stored words) and whose other bits are 0; with length 0 or
\* length > 32 it fails with Invalid_Argument.
C14_SubstringBits ==
  big_call.name = "get_substring" =>
    IF big_call.in[2] >= 1 /\ big_call.in[2] <= 32
    THEN /\ big_call.ret = "ok"
         /\ \A i \in 0..31 :
              Uint32Bit(big_call.value, i) =
                (IF i < big_call.in[2] THEN MagnitudeBit(big_call.old_reg, big_call.in[1] + i) ELSE 0)
    ELSE big_call.ret = "Invalid_Argument" /\ big_call.value = <<>>

\* C14 witness: a 32-bit window that starts inside a byte, crosses from the
\* first word into the second and has bits set on both sides
C14_Witness ==
  /\ big_call.name = "get_substring"
  /\ big_call.in = <<60, 32>>
  /\ big_call.ret = "ok"
  /\ \E i \in 0..3 : Uint32Bit(big_call.value, i) = 1
  /\ \E i \in 4..31 : Uint32Bit(big_call.value, i) = 1

\* the entries of vec before the first one shorter than words
RECURSIVE EntriesBeforeShort(_, _, _)
EntriesBeforeShort(vec, words, i) ==
  IF i = Len(vec) \/ Len(vec[i + 1]) < words THEN i ELSE EntriesBeforeShort(vec, words, i + 1)
\* every word below words of every one of the first n entries, entry by entry
ReadsOfEntries(n, words) ==
  Tup([k \in 1..(n * words) |-> <<(k - 1) \div words, (k - 1) % words>>])

\* C15: a const_time_lookup(output, vec, idx) that returns, with
\* idx < vec.size(), leaves output equal to the first output.size() words of
\* vec[idx]; and what a call reads is every word below output.size() of every
\* entry in turn (up to an entry shorter than the output), whatever idx is.
C15_LookupSelectsAndReadsAll ==
  big_call.name = "const_time_lookup" =>
    /\ (big_call.ret = "ok" /\ big_call.in[2] < Len(big_call.in[1])) =>
         big_ws = SubSeq(big_call.in[1][big_call.in[2] + 1], 1, Len(big_call.old_ws))
    /\ big_call.reads =
         ReadsOfEntries(EntriesBeforeShort(big_call.in[1], Len(big_call.old_ws), 0),
                        Len(big_call.old_ws))

\* C15 witness: two words looked up at the middle index of a table of three
\* whose entries differ
C15_Witness ==
  /\ big_call.name = "const_time_lookup"
  /\ big_call.ret = "ok"
  /\ big_call.in = <<FullEntries, 1>>
  /\ Len(big_ws) = 2
  /\ big_ws # big_call.old_ws
  /\ Len(big_call.reads) = 6

\* two word sequences hold the same limbs, the shorter one read as padded with
\* zero words
SameLimbs(a, b) ==
  \A i \in 0..((IF Len(a) >= Len(b) THEN Len(a) ELSE Len(b)) - 1) : word_at(a, i) = word_at(b, i)
\* after ct_cond_assign the receiver has at least max(size(), other.size()) words
CondAssignGrown ==
  /\ Len(m_reg) >= Len(big_call.old_reg)
  /\ Len(m_reg) >= Len(big_call.old_other)

\* C16, as stated: ct_cond_assign(pred, other) swaps: with pred true the
\* receiver ends with other's former limbs and other with the receiver's
\* former limbs; with pred false both keep their values; the receiver ends
\* with at least max(size(), other.size()) words.
C16_CondAssignSwaps ==
  big_call.name = "ct_cond_assign" =>
    /\ big_call.in[1] =>
         SameLimbs(m_reg, big_call.old_other) /\ SameLimbs(big_other, big_call.old_reg)
    /\ ~big_call.in[1] =>
         SameLimbs(m_reg, big_call.old_reg) /\ SameLimbs(big_other, big_call.old_other)
    /\ CondAssignGrown

\* C16, amended: ct_cond_assign(pred, other) assigns: with pred true the
\* receiver ends with other's limbs and other keeps its limbs; with pred
\* false both keep their values; the receiver ends with at least
\* max(size(), other.size()) words.
C16_CondAssignAssigns ==
  big_call.name = "ct_cond_assign" =>
    /\ big_call.in[1] =>
         SameLimbs(m_reg, big_call.old_other) /\ big_other = big_call.old_other
    /\ ~big_call.in[1] =>
         SameLimbs(m_reg, big_call.old_reg) /\ big_other = big_call.old_other
    /\ CondAssignGrown

\* C16 witness: pred true, other longer than the receiver and with other limbs
C16_Witness ==
  /\ big_call.name = "ct_cond_assign"
  /\ big_call.in[1]
  /\ Len(big_call.old_other) > Len(big_call.old_reg)
  /\ ~SameLimbs(big_call.old_other, big_call.old_reg)
  /\ SameLimbs(m_reg, big_call.old_other)

\* C17: when encode_words, to_u32bit, get_substring, reduce_below or
\* const_time_lookup fails, the receiver and the caller's output buffer hold
\* the values they held before the call.
C17_FailureLeavesValues ==
  (/\ big_call.name \in {"encode_words", "to_u32bit", "get_substring", "reduce_below",
                         "const_time_lookup"}
   /\ big_call.ret # "ok") =>
    /\ m_reg = big_call.old_reg
    /\ m_signedness = big_call.old_sign
    /\ big_ws = big_call.old_ws

\* bit n of the big-endian integer whose bytes are buf
BigEndianBit(buf, n) == IF n \div 8 >= Len(buf) THEN 0 ELSE Bit(buf[Len(buf) - (n \div 8)], n % 8)
\* the number of bits of that integer
BigEndianBits(buf) ==
  IF \A n \in 0..(8 * Len(buf)) : BigEndianBit(buf, n) = 0 THEN 0
  ELSE 1 + CHOOSE n \in 0..(8 * Len(buf)) :
             BigEndianBit(buf, n) = 1 /\ \A h \in (n + 1)..(8 * Len(buf)) : BigEndianBit(buf, h) = 0
\* the first min(length, ceil(max_bits / 8)) bytes of buf
MaxBitsPrefix(buf, max_bits) ==
  SubSeq(buf, 1, IF Len(buf) * 8 <= max_bits + 7 THEN Len(buf) ELSE (max_bits + 7) \div 8)
\* the bits by which the integer of those bytes exceeds max_bits
MaxBitsExcess(buf, max_bits) ==
  IF BigEndianBits(MaxBitsPrefix(buf, max_bits)) > max_bits
  THEN BigEndianBits(MaxBitsPrefix(buf, max_bits)) - max_bits ELSE 0

\* C18: BigInt(buf, length, max_bits) has bits() <= max_bits, and its value
\* is the big-endian integer of the first min(length, ceil(max_bits/8)) bytes
\* shifted right by the number of bits by which that integer exceeds
\* max_bits.
C18_MaxBitsConstructor ==
  big_call.name = "BigInt_max_bits" =>
    /\ bits(m_reg) <= big_call.in[2]
    /\ m_signedness = "Positive"
    /\ \A n \in 0..(8 * WORD_BYTES * Len(m_reg) + 7) :
         MagnitudeBit(m_reg, n) =
           BigEndianBit(MaxBitsPrefix(big_call.in[1], big_call.in[2]),
                        n + MaxBitsExcess(big_call.in[1], big_call.in[2]))

\* C18 witness: two bytes that make sixteen bits, cut to nine bits
C18_Witness ==
  /\ big_call.name = "BigInt_max_bits"
  /\ big_call.in[2] = 9
  /\ Len(big_call.in[1]) = 2
  /\ MaxBitsExcess(big_call.in[1], big_call.in[2]) = 7
  /\ bits(m_reg) = 9

\* a magnitude below 2^24, and its value
IsSmall(reg) == calc_sig_words(reg) <= 1 /\ \A k \in 1..5 : word_at(reg, 0)[k] = 0
SmallValue(reg) == LeValue(WordsLeBytes(reg, 1), 1, 2^30)
\* x mod m for a modulus below 2^22, from the bytes of x
Remainder(x, m) == LeValue(WordsLeBytes(x, calc_sig_words(x)), 1, m)
\* x - k * p over n words
RECURSIVE SubtractedTimes(_, _, _, _)
SubtractedTimes(x, n, p, k) ==
  IF k = 0 \/ Len(x) > n + 8 THEN SubSeq(grow_to(x, n), 1, n)
  ELSE SubtractedTimes(bigint_sub3(x, n, p, calc_sig_words(p)).z, n, p, k - 1)
\* r is x mod p: r < p, and r is the remainder computed from the bytes of x
\* (small p) or x less a multiple of p
IsResidue(r, x, p) ==
  /\ bigint_cmp(r, calc_sig_words(r), p, calc_sig_words(p)) < 0
  /\ IF IsSmall(p) /\ SmallValue(p) > 0
     THEN IsSmall(r) /\ SmallValue(r) = Remainder(x, SmallValue(p))
     ELSE \E k \in 0..(2^(ReduceSlackBits + 1)) :
            SameLimbs(SubtractedTimes(x, calc_sig_words(p) + 1, p, k), r)

\* C28: for every modulus p that is not negative and every non-negative
\* receiver x that fits in p.sig_words() + 1 words, reduce_below(p, ws)
\* returns and leaves the receiver equal to x mod p, with 0 <= result < p.
C28_ReduceBelow ==
  (/\ big_call.name = "reduce_below"
   /\ big_call.in[1] = "Positive" /\ big_call.old_sign = "Positive"
   /\ calc_sig_words(big_call.old_reg) <= calc_sig_words(big_other) + 1) =>
     /\ big_call.ret = "ok"
     /\ m_signedness = "Positive"
     /\ IsResidue(m_reg, big_call.old_reg, big_other)

\* C21: x.is_less_than(y) is true exactly when x.cmp(y) < 0, for x and y of
\* either sign.
C21_LessThanAgreesWithCmp ==
  big_call.name = "is_less_than" =>
    (big_call.value <=>
       cmp_ret([reg |-> big_call.old_reg, sign |-> big_call.old_sign],
               [reg |-> big_other, sign |-> big_call.in[1]], TRUE) < 0)

(***************************************************************************)
(* XMSS_Hash: properties                                                   *)
(***************************************************************************)
\* C8 (as claimed): h_msg_update is accepted only when the streaming hash is
\* Initialized; in Fresh and in Finalized it is refused.
C8_UpdateOnlyWhenInitialized ==
  (xmss_op.name = "h_msg_update" /\ xmss_op.ret = "ok") => xmss_op.pre = "Initialized"

\* C8 (amended): h_msg_update is never refused, whatever the lifecycle state;
\* what the state decides is the hash input: while Initialized it is the
\* prefix of the last h_msg_init followed by the data of the updates since,
\* and after an update made in Fresh or Finalized it is that data alone,
\* without any prefix.
C8_UpdateAlwaysAccepted ==
  /\ xmss_op.name = "h_msg_update" => xmss_op.ret = "ok"
  /\ xmss_state = "Initialized" => m_msg_hash = Cat(xmss_prefix, xmss_fed)
  /\ xmss_state # "Initialized" => m_msg_hash = xmss_fed

\* an update accepted after h_msg_final, before any new h_msg_init
C8_Witness ==
  /\ xmss_op.name = "h_msg_update"
  /\ xmss_op.pre = "Finalized"
  /\ xmss_op.ret = "ok"
  /\ xmss_fed # <<>>

(***************************************************************************)
(* FFI utilities: properties                                               *)
(***************************************************************************)
\* C29: write_output(out, out_len, buf, buf_len), and write_str_output
\* through it, always sets *out_len to buf_len; when the capacity (the value
\* of *out_len on entry) is at least buf_len it copies exactly buf_len bytes
\* and returns success; otherwise it returns INSUFFICIENT_BUFFER_SPACE,
\* copies no byte of buf and sets the first capacity bytes of out to zero;
\* no byte behind the capacity is written.
C29_WriteOutput ==
  ffi_op.name \in {"write_output", "write_str_output"} =>
    /\ ffi_out_len = Len(ffi_op.buf)
    /\ \A i \in (ffi_op.avail + 1)..OutSize : ffi_out[i] = ffi_op.old_out[i]
    /\ IF ffi_op.avail >= Len(ffi_op.buf)
       THEN /\ ffi_op.ret = "BOTAN_FFI_SUCCESS"
            /\ \A i \in 1..Len(ffi_op.buf) : ffi_out[i] = ffi_op.buf[i]
            /\ \A i \in (Len(ffi_op.buf) + 1)..OutSize : ffi_out[i] = ffi_op.old_out[i]
       ELSE /\ ffi_op.ret = "BOTAN_FFI_ERROR_INSUFFICIENT_BUFFER_SPACE"
            /\ \A i \in 1..ffi_op.avail : ffi_out[i] = 0
            /\ \A i \in 1..OutSize : ffi_out[i] \notin BufBytes

\* C29 witness: a string that fits the capacity without its terminating NUL
\* but not with it was refused, with a capacity that is not zero.
C29_Witness ==
  /\ ffi_op.name = "write_str_output"
  /\ ffi_op.avail = Len(ffi_op.buf) - 1
  /\ ffi_op.avail = MaxOut
  /\ ffi_op.ret = "BOTAN_FFI_ERROR_INSUFFICIENT_BUFFER_SPACE"

\* the codes and the exception by which a call on a handle reports an error
FfiErrors ==
  {"FFI_Error", ffi_error_exception_thrown, "BOTAN_FFI_ERROR_INVALID_INPUT",
   "BOTAN_FFI_ERROR_UNKNOWN_ERROR"}

\* C30: for any sequence of FFI calls on an object handle, get() and
\* apply_fn reach the wrapped object only while the handle's magic equals
\* MAGIC; ffi_delete_object returns SUCCESS for a null handle and for a live
\* handle, and returns INVALID_INPUT without destroying anything when the
\* magic does not match; destroying a handle sets its magic to 0, and a later
\* get, apply_fn or delete on it is reported as an error and does not reach
\* the object.
C30_HandleLifecycle ==
  /\ (ffi_op.name \in {"get", "apply_fn"} /\ ffi_op.reached) =>
       magic_ok(StructAt(ffi_op.arg).m_magic)
  /\ ffi_op.name = "ffi_delete_object" =>
       /\ ffi_op.arg = "null" => (ffi_op.ret = "BOTAN_FFI_SUCCESS" /\ ~ffi_op.destroyed)
       /\ (ffi_op.arg = "handle" /\ ffi_op.storage = "live") =>
            (ffi_op.ret = "BOTAN_FFI_SUCCESS" /\ ffi_op.destroyed)
       /\ (ffi_op.arg # "null" /\ ~magic_ok(ffi_op.magic)) =>
            (ffi_op.ret = "BOTAN_FFI_ERROR_INVALID_INPUT" /\ ~ffi_op.destroyed)
  /\ ffi_op.destroyed => ffi_handle.m_magic = 0
  /\ (/\ ffi_op.name \in {"get", "apply_fn", "ffi_delete_object"}
      /\ ffi_op.arg = "handle"
      /\ ffi_op.storage = "freed") =>
       (ffi_op.ret \in FfiErrors /\ ~ffi_op.reached /\ ~ffi_op.destroyed)

=============================================================================
